---- MODULE Spec2Model ----
(***************************************************************************)
(* The scan intake pipeline of kenji415/pptmaker: the per-file handler     *)
(* handle_pdf of scan_printer.py (campus folders in / processing / done /  *)
(* error) and of scan_printer_yotsuya.py (one watched folder with the      *)
(* sub-folders processed and error, plus a poller), the watchdog callbacks *)
(* that start it on a thread of its own, and the environment around them:  *)
(* the scanning device, the operator, the file system, the printers.       *)
(***************************************************************************)
EXTENDS Integers, Sequences, FiniteSets

\* ---------------------------------------------------------------- bounds
MaxDocs == 2
MaxThreads == 2
MaxResubmit == 1
MaxStamp == 1
MaxScans == 3
MaxSize == 2
MaxNameLen == 2
MaxPrinters == 2
MaxSaves == 2
MaxFields == 3
MaxFiles == 3
MaxPathLen == 2
MaxLogs == 2

Docs == 1..MaxDocs
Threads == 1..MaxThreads
Stamps == 1..MaxStamp
RScans == 1..MaxScans

\* The file sizes a sample may show (0: nothing written yet).
Sizes == 0..MaxSize

STABLE_CHECK_COUNT == 6

\* range(STABLE_CHECK_COUNT * 5)
Attempts == STABLE_CHECK_COUNT * 5

\* The characters of a payload. "P", "F" and "R" stand for the words
\* PRINT_ID, FILE and PRINTER, "%" for the escape %2F of a slash.
Blank == " "

\* The pieces payloads are made of: the three tags (a printer name with and
\* without a blank in it), a tag with another key, names (with and without
\* blanks around them), an empty and a blank piece.
IdPieces == {<<"P", "=", "i">>}

FilePieces == {<<"F", "=", "x", "%", "x">>}

PrinterPieces == {<<"R", "=", "x">>, <<"R", "=", "x", Blank, "y">>}

OtherPieces == {<<"k", "=", "x">>, <<"x">>, <<Blank, "y", Blank>>, <<>>, <<Blank>>}

Pieces == IdPieces \cup FilePieces \cup PrinterPieces \cup OtherPieces

\* An Optional[str] that is None.
Nil == <<"None">>

\* A parser that has not run.
NotParsed == [done |-> FALSE, value |-> <<>>]

Parsed(v) == [done |-> TRUE, value |-> v]

\* The labels of the stages of decode_qr_from_image, in the order of its
\* code.
Ladder == <<"roi_raw", "roi_big", "roi_big_otsu", "full_bgr", "full_otsu">>

\* The stages on the lower-left region.
RoiStages == {"roi_raw", "roi_big", "roi_big_otsu"}

\* detector.detectAndDecode raised.
Raised == <<"Exception">>

\* What detectAndDecode gives for an image: no text, a blank, a text, a text
\* after a blank; or it raises.
DetectorData == {<<>>, <<Blank>>, <<"x">>, <<Blank, "y">>, Raised}

\* The identifiers generate_print_id gives out.
PrintIds == {"QS_1", "QS_2"}

\* The file names a mapping is saved for; one is written with a blank before
\* it.
FileHints == {"a.pdf", "b.pdf", " b.pdf"}

\* str.strip()
Strip(text) == IF text = " b.pdf" THEN "b.pdf" ELSE text

\* Printer names and hints: strings, as the tuples of their characters.
Letters == {"a", "b"}

SeqsUpTo(S, n) == UNION {[1..k -> S] : k \in 0..n}

PrinterStrings == SeqsUpTo(Letters, MaxNameLen)

\* Optional[str]: a name, or None.
NoPrinter == [found |-> FALSE, name |-> <<>>]

Printer(name) == [found |-> TRUE, name |-> name]

\* The samples kept of the history: a run that makes the gate answer True,
\* and no more.
Window == STABLE_CHECK_COUNT + 1

\* No document: what a path that does not exist (pdf_path.exists() false) holds.
NoDoc == 0

\* ------------------------------------------------------------- vocabulary
\* The file names the scanning device gives its output.
Names == {"a.pdf"}

\* A file name: the scanned name, and the timestamp suffix a collision adds.
Plain(n) == [base |-> n, stamp |-> 0]

Stamped(n, s) == [base |-> n, stamp |-> s]

FileNames == [base : Names, stamp : 0..MaxStamp]

\* What the first page carries: no readable code, a tag-form payload
\* PRINT_ID=..,FILE=.., or one that also has PRINTER=.. .
QRKinds == {"none", "tag", "tagp"}

\* The default printer of scan_printer_yotsuya.py (its name there is in
\* Japanese), and the printer_name of the campus entry of printers.yaml.
PRINTER_NAME == "Office"

\* The printer a PRINTER= hint names.
HintPrinter == "FrontDesk"

\* A printer that is installed and that no job names.
OtherPrinter == "Lobby"

\* win32print.EnumPrinters
InstalledPrinters == {PRINTER_NAME, HintPrinter, OtherPrinter}

\* A local that is not assigned yet.
NotSet == ""

\* scan_router.py: the text of a decoded QR code, split at its commas (<<>>
\* when no code was decoded).
RPayloads == {<<>>, <<"hello">>, <<"Yamanaka", "Tanaka">>}

\* The text itself (its pieces and its commas), as it is written to the log.
RawText(parts) ==
    IF Len(parts) = 0 THEN <<>>
    ELSE IF Len(parts) = 1 THEN <<parts[1]>>
    ELSE IF Len(parts) = 2 THEN <<parts[1], ",", parts[2]>>
    ELSE <<parts[1], ",", parts[2], ",", parts[3]>>

None == <<>>

\* parse_qr_payload: student,teacher[,text]; None without a comma or with an
\* empty student or teacher; the result is (teacher, student, text_name).
ParseQrPayload(parts) ==
    IF Len(parts) < 2 THEN None
    ELSE IF parts[1] = "" \/ parts[2] = "" THEN None
    ELSE <<parts[2], parts[1], IF Len(parts) >= 3 THEN parts[3] ELSE "">>

\* A file name of a teacher folder: base is the (teacher, student, text) the
\* name QS_<date>_<student>..._<teacher>[_<text>] is built from, n = 1 is
\* <base>.pdf and n >= 2 is <base>_n.pdf.
NoName == [base |-> <<>>, n |-> 0]

VARIABLES
    variant,            \* "campus" (scan_printer.py) or "yotsuya" (scan_printer_yotsuya.py)
    siteConfigured,     \* printers.yaml has an entry for the campus folder
    faulty,             \* the environment may fail: moves, stat, mkdir, the log, printers
    loc,                \* per document: the folder that holds it
    fname,              \* per document: its file name there
    written,            \* per document: "empty", "partial" or "complete"
    recent,             \* per document: modified within the poller's window
    qr,                 \* per document: what its first page carries
    processing_files,   \* the set of path keys being handled
    pc,                 \* per handler thread: where it is in handle_pdf
    key,                \* per handler thread: file_key, the path it was started for
    tdoc,               \* per handler thread: the document its gate / decode saw
    tqr,                \* per handler thread: the decoded payload
    why,                \* per handler thread: the error message it is about to log
    gateok,             \* per handler thread: wait_until_file_stable returned True
    log,                \* the outcome log, a sequence of records
    prints,             \* per document: print jobs submitted for it
    placed,             \* per document: moves of it into done or error
    finished,           \* per document: a handler that saw it stable has returned
    nresub              \* operator resubmissions so far

docVars == <<loc, fname, written, recent, qr>>

threadVars == <<pc, key, tdoc, tqr, why, gateok>>

histVars == <<log, prints, placed, finished, nresub>>

\* scan_router.py, modelled on its own (RouterSpec below).
VARIABLES
    rloc,               \* per scan: "unborn", "inbox", "out", "removed", "taken", "lost"
    rpay,               \* per scan: the decoded QR text, split at its commas
    rname,              \* per scan: the name it was filed under in the teacher folder
    rqueue,             \* the events the observer thread has not dispatched yet
    rpc,                \* where the observer thread is in handle_pdf
    rcur,               \* the scan (inbox path) the running handle_pdf was called for
    rdst,               \* dst, what build_destination returned
    rlog                \* the lines written to scan_router.log (their order left out)

routerVars == <<rloc, rpay, rname, rqueue, rpc, rcur, rdst, rlog>>

\* wait_until_file_stable, modelled on its own (GateSpec below).
VARIABLES
    glast,              \* last
    gstable,            \* stable
    gi,                 \* iterations of the for loop completed
    gret,               \* "running", or what the call returned: "true", "false"
    ghist               \* the size samples taken so far, the last Window of them

gateVars == <<glast, gstable, gi, gret, ghist>>

\* find_printer_by_name, modelled on its own (PrinterSpec below).
VARIABLES
    qr_printer_name,    \* the hint, a string as the tuple of its characters
    available_printers, \* the installed printers in enumeration order
    printer_config,     \* the printer_name of each entry of printers.yaml
    presult,            \* what find_printer_by_name returned
    ppc                 \* "call", "returned"

printerVars == <<qr_printer_name, available_printers, printer_config, presult, ppc>>

\* The backends of print_pdf (scan_printer_yotsuya.py), modelled on their own
\* (BackendSpec below): one call per worker thread.
VARIABLES
    sumatra_path,       \* TRUE when a SumatraPDF.exe was found
    acrobat_path,       \* TRUE when an Acrobat / Reader executable was found
    sysdefault,         \* the system default printer
    original,           \* the system default printer before any call
    bpc,                \* each worker's position in print_pdf
    printer_name,       \* each call's resolved printer
    default_printer,    \* each call's local default_printer, NotSet before
    bresult,             \* each call's ShellExecute result was > 32
    attempts,           \* the backends each call has started, in order
    bret                \* what each call returned: "none", "true", "false"

backendVars == <<sumatra_path, acrobat_path, sysdefault, original, bpc,
                 printer_name, default_printer, bresult, attempts, bret>>

\* The identifier mapping table print_id_mapping.csv and the calls of
\* save_print_id_mapping (app.py, scan_printer_yotsuya.py), modelled on their
\* own (MappingSpec below).
VARIABLES
    mexists,            \* PRINT_ID_MAPPING_FILE exists
    mrows,              \* its rows under the header, in file order
    mpc,                \* each worker's position in save_print_id_mapping
    mprog,              \* whose save_print_id_mapping the worker runs
    mid,                \* each call's print_id
    mfn,                \* each call's filename
    existing_mappings,  \* each call's dict, as its items in insertion order
    mcalls,             \* the calls started so far
    moverlap,           \* two calls have been under way at once
    mlast               \* the filename of the latest call started for each identifier

mappingVars == <<mexists, mrows, mpc, mprog, mid, mfn, existing_mappings,
                 mcalls, moverlap, mlast>>

\* The payload parsers, modelled on their own (GrammarSpec below):
\* extract_print_id_from_qr of scan_printer_yotsuya.py and of scan_printer.py
\* from the decoded text on, and parse_qr_payload of scan_router.py.
VARIABLES
    qfields,            \* the comma-separated pieces the payload was made of
    qr_data,            \* the decoded text, as the tuple of its characters
    qpc,                \* "idle", or "read" once a code has been decoded
    qtags,              \* what extract_print_id_from_qr (yotsuya) returned
    qcampus,            \* what extract_print_id_from_qr (scan_printer.py) returned
    qtuple              \* what parse_qr_payload returned

grammarVars == <<qfields, qr_data, qpc, qtags, qcampus, qtuple>>

\* decode_qr_from_image of scan_router.py, modelled on its own (LadderSpec
\* below).
VARIABLES
    roi_size,           \* roi.size > 0: the lower-left region has pixels
    lpc,                \* "idle", "try", "returned"
    lnext,              \* the index in Ladder of the stage to try next
    ltried,             \* the stages tried, each with what the detector gave
    lret                \* what decode_qr_from_image returned

ladderVars == <<roi_size, lpc, lnext, ltried, lret>>

\* get_print_pdf_path and what it looks at: the files under PDF_DIR and under
\* fallback_pdf_dir, the rows of the identifier mapping table, the order the
\* file system lists files in (vrev: the reverse of FileOrder), the
\* arguments and the PRINT_ID of the job, the position in the function, the
\* locals of its fuzzy search, and what it returned and by which method.
VARIABLES pdf_dir, fallback_pdf_dir, vtable, vrev, vid, voriginal_filename,
          vscan_filename, vpc, best_match, best_score, vret, vby

resolverVars == <<pdf_dir, fallback_pdf_dir, vtable, vrev, vid,
                  voriginal_filename, vscan_filename, vpc, best_match,
                  best_score, vret, vby>>

\* One call of print_pdf from its first line to its return: the program it
\* belongs to, the installed printers (local, then network), the
\* printer_name entries of printers.yaml, the printer_name argument and the
\* name after resolution, whether the artifact lies on a network share, the
\* temporary copy (none made, the file, or absent), the print application
\* found, the position in the function, the backends invoked with the
\* printer each was given, the return value, and the thread that deletes the
\* temporary copy.
VARIABLES jprog, all_printers, jconfig, jhint, jname, jnetwork, temp_pdf_path,
          jtool, jpc, jcalls, jret, jdeleter

jobVars == <<jprog, all_printers, jconfig, jhint, jname, jnetwork,
             temp_pdf_path, jtool, jpc, jcalls, jret, jdeleter>>

\* A code from its making in app.py to its reading in the scanner: the file
\* name and the printer of the campus given to create_header_with_qr, the
\* PRINT_ID it generated, the payload it wrote, what
\* extract_print_id_from_qr made of it, and the position.
VARIABLES sfilename, sprinter, sprint_id, sqr_data, sparsed, spc

stampVars == <<sfilename, sprinter, sprint_id, sqr_data, sparsed, spc>>

\* log_print_result and the outcome log: whether LOG_CSV exists, its rows,
\* and for every worker the position in the function, the call it is in,
\* its local file_exists, the rows in the buffer of its file object, and the
\* end of the file it moved to before writing. wcalls counts the calls.
VARIABLES log_exists, log_rows, wpc, wcall, file_exists, wbuf, wpos, wcalls

loggerVars == <<log_exists, log_rows, wpc, wcall, file_exists, wbuf, wpos,
                wcalls>>

\* The state of the components that are modelled on their own.
componentVars == <<routerVars, gateVars, printerVars, backendVars, mappingVars, grammarVars, ladderVars, resolverVars, jobVars, stampVars, loggerVars>>

\* What no step of the print intake changes: its configuration, and the
\* components modelled on their own.
envVars == <<variant, siteConfigured, faulty, componentVars>>

\* The print intake (the specification Spec).
intakeVars == <<variant, siteConfigured, faulty, loc, fname, written, recent, qr,
                processing_files, pc, key, tdoc, tqr, why, gateok,
                log, prints, placed, finished, nresub>>

vars == <<intakeVars, componentVars>>

\* What the steps of one component leave alone: everything but its own state.
routerRest == <<intakeVars, gateVars, printerVars, backendVars,
                mappingVars,
                grammarVars,
                ladderVars,
                resolverVars,
                jobVars,
                stampVars,
                loggerVars>>

gateRest == <<intakeVars, routerVars, printerVars, backendVars,
              mappingVars,
              grammarVars,
              ladderVars,
              resolverVars,
              jobVars,
              stampVars,
              loggerVars>>

printerRest == <<intakeVars, routerVars, gateVars, backendVars,
                 mappingVars,
                 grammarVars,
                 ladderVars,
                 resolverVars,
                 jobVars,
                 stampVars,
                 loggerVars>>

backendRest == <<intakeVars, routerVars, gateVars, printerVars,
                 mappingVars,
                 grammarVars,
                 ladderVars,
                 resolverVars,
                 jobVars,
                 stampVars,
                 loggerVars>>

mappingRest == <<intakeVars, routerVars, gateVars, printerVars, backendVars,
                 grammarVars,
                 ladderVars,
                 resolverVars,
                 jobVars,
                 stampVars,
                 loggerVars>>

grammarRest == <<intakeVars, routerVars, gateVars, printerVars, backendVars, mappingVars,
                 ladderVars,
                 resolverVars,
                 jobVars,
                 stampVars,
                 loggerVars>>

ladderRest == <<intakeVars, routerVars, gateVars, printerVars, backendVars, mappingVars, grammarVars,
                resolverVars,
                jobVars,
                stampVars,
                loggerVars>>

resolverRest == <<intakeVars, routerVars, gateVars, printerVars, backendVars, mappingVars, grammarVars, ladderVars,
                  jobVars,
                  stampVars,
                  loggerVars>>

jobRest == <<intakeVars, routerVars, gateVars, printerVars, backendVars, mappingVars, grammarVars, ladderVars, resolverVars,
             stampVars,
             loggerVars>>

stampRest == <<intakeVars, routerVars, gateVars, printerVars, backendVars, mappingVars, grammarVars, ladderVars, resolverVars, jobVars,
               loggerVars>>

loggerRest == <<intakeVars, routerVars, gateVars, printerVars, backendVars, mappingVars, grammarVars, ladderVars, resolverVars, jobVars, stampVars>>

\* ------------------------------------------------------------ file system
\* The document at folder/name, or NoDoc.
FileAt(folder, nm) ==
    LET S == {d \in Docs : loc[d] = folder /\ fname[d] = nm}
    IN  IF S = {} THEN NoDoc ELSE CHOOSE d \in S : TRUE

\* shutil.move(src, dst): the document takes the destination path; a file
\* already at that path is replaced (os.rename on POSIX, copy2 over it on
\* Windows).
MovedLoc(d, folder, nm) ==
    [x \in Docs |-> IF x = d THEN folder
                    ELSE IF loc[x] = folder /\ fname[x] = nm THEN "lost"
                    ELSE loc[x]]

MovedName(d, nm) == [fname EXCEPT ![d] = nm]

\* The folder a handler's pdf_path points into before / after line 329.
WatchedFolder == "in"

DoneFolder == "done"

ErrorFolder == "error"

\* The destination file name in done / error: scan_printer.py keeps the name;
\* scan_printer_yotsuya.py appends a timestamp when the name is taken.
DestName(folder, n, s) ==
    IF variant = "yotsuya" /\ FileAt(folder, Plain(n)) # NoDoc
    THEN Stamped(n, s)
    ELSE Plain(n)

\* ---------------------------------------------------------------- threads
IdleThreads == {t \in Threads : pc[t] = "idle"}

NextThread == CHOOSE t \in IdleThreads : \A u \in IdleThreads : t <= u

\* threading.Thread(target=..., args=(path,)).start(): the callback returns at
\* once; a notification that finds no thread to run on is a missed event.
Spawn(n, deliver) ==
    IF deliver /\ IdleThreads # {}
    THEN /\ pc' = [pc EXCEPT ![NextThread] = "start"]
         /\ key' = [key EXCEPT ![NextThread] = n]
    ELSE UNCHANGED <<pc, key>>

\* The pcs at which a handler holds (or is about to release) its guard entry.
AdmittedPcs == {"gate", "toproc", "qr", "mv_done", "mv_done2",
                "mv_err", "exc_in", "exc_proc", "fin"}

\* ------------------------------------------------------------------- Init
\* The print intake before anything has arrived.
IntakeStart ==
    /\ loc = [d \in Docs |-> "unborn"]
    /\ fname = [d \in Docs |-> Plain(CHOOSE n \in Names : TRUE)]
    /\ written = [d \in Docs |-> "empty"]
    /\ recent = [d \in Docs |-> FALSE]
    /\ qr = [d \in Docs |-> "none"]
    /\ processing_files = {}
    /\ pc = [t \in Threads |-> "idle"]
    /\ key = [t \in Threads |-> CHOOSE n \in Names : TRUE]
    /\ tdoc = [t \in Threads |-> NoDoc]
    /\ tqr = [t \in Threads |-> "none"]
    /\ why = [t \in Threads |-> ""]
    /\ gateok = [t \in Threads |-> FALSE]
    /\ log = <<>>
    /\ prints = [d \in Docs |-> 0]
    /\ placed = [d \in Docs |-> 0]
    /\ finished = [d \in Docs |-> FALSE]
    /\ nresub = 0

\* The print intake left alone, where another component is the subject.
IntakeAtRest ==
    /\ variant = "campus"
    /\ siteConfigured = TRUE
    /\ faulty = FALSE
    /\ IntakeStart

\* scan_router.py at its start: nothing scanned, nothing queued.
RouterInit ==
    /\ rloc = [f \in RScans |-> "unborn"]
    /\ rpay = [f \in RScans |-> <<>>]
    /\ rname = [f \in RScans |-> NoName]
    /\ rqueue = <<>>
    /\ rpc = "idle"
    /\ rcur = NoDoc
    /\ rdst = NoName
    /\ rlog = {}

\* wait_until_file_stable at its call: last = -1, stable = 0.
GateInit ==
    /\ glast = -1
    /\ gstable = 0
    /\ gi = 0
    /\ gret = "running"
    /\ ghist = <<>>

\* No call of find_printer_by_name under way.
PrinterAtRest ==
    /\ qr_printer_name = <<>>
    /\ available_printers = <<>>
    /\ printer_config = <<>>
    /\ presult = NoPrinter
    /\ ppc = "call"

\* No call of print_pdf under way.
BackendCalls ==
    /\ original = sysdefault
    /\ bpc = [t \in Threads |-> "idle"]
    /\ printer_name = [t \in Threads |-> NotSet]
    /\ default_printer = [t \in Threads |-> NotSet]
    /\ bresult = [t \in Threads |-> FALSE]
    /\ attempts = [t \in Threads |-> <<>>]
    /\ bret = [t \in Threads |-> "none"]

BackendAtRest ==
    /\ sumatra_path = TRUE
    /\ acrobat_path = TRUE
    /\ sysdefault = OtherPrinter
    /\ BackendCalls

\* Any installation: each viewer found or not, any default printer.
BackendInit ==
    /\ sumatra_path \in BOOLEAN
    /\ acrobat_path \in BOOLEAN
    /\ sysdefault \in InstalledPrinters
    /\ BackendCalls

\* No mapping table yet, no call of save_print_id_mapping under way.
MappingAtRest ==
    /\ mexists = FALSE
    /\ mrows = <<>>
    /\ mpc = [t \in Threads |-> "idle"]
    /\ mprog = [t \in Threads |-> NotSet]
    /\ mid = [t \in Threads |-> NotSet]
    /\ mfn = [t \in Threads |-> NotSet]
    /\ existing_mappings = [t \in Threads |-> <<>>]
    /\ mcalls = 0
    /\ moverlap = FALSE
    /\ mlast = [i \in PrintIds |-> NotSet]

\* No code decoded yet.
GrammarAtRest ==
    /\ qfields = <<>>
    /\ qr_data = <<>>
    /\ qpc = "idle"
    /\ qtags = NotParsed
    /\ qcampus = NotParsed
    /\ qtuple = NotParsed

\* No call of decode_qr_from_image under way.
LadderAtRest ==
    /\ roi_size = TRUE
    /\ lpc = "idle"
    /\ lnext = 1
    /\ ltried = <<>>
    /\ lret = Nil

\* No file under either root, no row in the table, no call of
\* get_print_pdf_path under way.
ResolverAtRest ==
    /\ pdf_dir = {}
    /\ fallback_pdf_dir = {}
    /\ vtable = {}
    /\ vrev = FALSE
    /\ vid = NotSet
    /\ voriginal_filename = <<>>
    /\ vscan_filename = <<>>
    /\ vpc = "idle"
    /\ best_match = <<>>
    /\ best_score = <<0, 1>>
    /\ vret = <<>>
    /\ vby = NotSet

\* No call of print_pdf yet.
JobAtRest ==
    /\ jprog = NotSet
    /\ all_printers = <<>>
    /\ jconfig = <<>>
    /\ jhint = <<>>
    /\ jname = <<>>
    /\ jnetwork = FALSE
    /\ temp_pdf_path = "none"
    /\ jtool = NotSet
    /\ jpc = "idle"
    /\ jcalls = <<>>
    /\ jret = NotSet
    /\ jdeleter = "none"

\* No code made yet.
StampAtRest ==
    /\ sfilename = <<>>
    /\ sprinter = <<>>
    /\ sprint_id = <<>>
    /\ sqr_data = <<>>
    /\ sparsed = <<>>
    /\ spc = "idle"

\* No outcome log yet, no call of log_print_result under way.
LoggerAtRest ==
    /\ log_exists = FALSE
    /\ log_rows = <<>>
    /\ wpc = [t \in Threads |-> "idle"]
    /\ wcall = [t \in Threads |-> 0]
    /\ file_exists = [t \in Threads |-> FALSE]
    /\ wbuf = [t \in Threads |-> <<>>]
    /\ wpos = [t \in Threads |-> 0]
    /\ wcalls = 0

ComponentsAtRest == RouterInit /\ GateInit /\ PrinterAtRest /\ BackendAtRest /\ MappingAtRest /\ GrammarAtRest /\ LadderAtRest /\ ResolverAtRest /\ JobAtRest /\ StampAtRest /\ LoggerAtRest

Init ==
    /\ variant \in {"campus", "yotsuya"}
    /\ siteConfigured \in BOOLEAN
    /\ (variant = "yotsuya" => siteConfigured)
    /\ faulty \in BOOLEAN
    /\ IntakeStart
    /\ ComponentsAtRest

\* ------------------------------------------------------ the environment
UnbornDocs == {d \in Docs : loc[d] = "unborn"}

NextDoc == CHOOSE d \in UnbornDocs : \A e \in UnbornDocs : d <= e

\* mtime is read by the poller of scan_printer_yotsuya.py only.
Fresh == variant = "yotsuya"

\* The scanning device creates n in the watched folder and starts writing;
\* watchdog calls on_created, which starts a handler thread.
ScanCreate(n, q, deliver) ==
    /\ UnbornDocs # {}
    /\ FileAt(WatchedFolder, Plain(n)) = NoDoc
    /\ loc' = [loc EXCEPT ![NextDoc] = WatchedFolder]
    /\ fname' = [fname EXCEPT ![NextDoc] = Plain(n)]
    /\ written' = [written EXCEPT ![NextDoc] = "empty"]
    /\ recent' = [recent EXCEPT ![NextDoc] = Fresh]
    /\ qr' = [qr EXCEPT ![NextDoc] = q]
    /\ Spawn(n, deliver)
    /\ UNCHANGED <<envVars, processing_files, tdoc, tqr, why, gateok, histVars>>

\* on_modified of scan_printer_yotsuya.py: only a path that exists with a
\* size above zero starts a handler; scan_printer.py has no on_modified.
OnModifiedAdmits(w) == variant = "yotsuya" /\ w # "empty"

\* The device writes more of the file, or the last of it.
ScanWrite(d, w, deliver) ==
    /\ loc[d] = WatchedFolder
    /\ written[d] # "complete"
    /\ deliver => OnModifiedAdmits(w)
    /\ written' = [written EXCEPT ![d] = w]
    /\ recent' = [recent EXCEPT ![d] = Fresh]
    /\ Spawn(fname[d].base, deliver)
    /\ UNCHANGED <<envVars, loc, fname, qr, processing_files, tdoc, tqr, why,
                   gateok, histVars>>

\* The device writes under another name and renames the finished file into
\* place; watchdog calls on_moved with dest_path = n.
ScanRename(n, q, deliver) ==
    /\ UnbornDocs # {}
    /\ FileAt(WatchedFolder, Plain(n)) = NoDoc
    /\ loc' = [loc EXCEPT ![NextDoc] = WatchedFolder]
    /\ fname' = [fname EXCEPT ![NextDoc] = Plain(n)]
    /\ written' = [written EXCEPT ![NextDoc] = "complete"]
    /\ recent' = [recent EXCEPT ![NextDoc] = Fresh]
    /\ qr' = [qr EXCEPT ![NextDoc] = q]
    /\ Spawn(n, deliver)
    /\ UNCHANGED <<envVars, processing_files, tdoc, tqr, why, gateok, histVars>>

\* Ten seconds pass since the file was last modified.
Age(d) ==
    /\ loc[d] = WatchedFolder
    /\ recent[d]
    /\ recent' = [recent EXCEPT ![d] = FALSE]
    /\ UNCHANGED <<envVars, loc, fname, written, qr, processing_files,
                   threadVars, histVars>>

\* The operator moves a file from the error folder back into the watched
\* folder under its scanned name; watchdog reports a creation.
Resubmit(d, r, deliver) ==
    /\ loc[d] = ErrorFolder
    /\ nresub < MaxResubmit
    /\ FileAt(WatchedFolder, Plain(fname[d].base)) = NoDoc
    /\ r => Fresh
    /\ loc' = [loc EXCEPT ![d] = WatchedFolder]
    /\ fname' = [fname EXCEPT ![d] = Plain(fname[d].base)]
    /\ recent' = [recent EXCEPT ![d] = r]
    /\ finished' = [finished EXCEPT ![d] = FALSE]
    /\ nresub' = nresub + 1
    /\ Spawn(fname[d].base, deliver)
    /\ UNCHANGED <<envVars, written, qr, processing_files, tdoc, tqr, why,
                   gateok, log, prints, placed>>

\* poll_for_new_pdfs, one file of its glob: not being handled, size above
\* zero, modified within the last ten seconds.
PollAdmits(n) ==
    LET d == FileAt(WatchedFolder, Plain(n))
    IN  /\ d # NoDoc
        /\ n \notin processing_files
        /\ written[d] # "empty"
        /\ recent[d]

Poll(n) ==
    /\ variant = "yotsuya"
    /\ PollAdmits(n)
    /\ IdleThreads # {}
    /\ Spawn(n, TRUE)
    /\ UNCHANGED <<envVars, docVars, processing_files, tdoc, tqr, why, gateok,
                   histVars>>

\* --------------------------------------------------------------- handle_pdf
\* The folder pdf_path points into once the handler works on the file:
\* scan_printer.py has moved it to processing, scan_printer_yotsuya.py works
\* on it in the watched folder.
WorkFolder == IF variant = "campus" THEN "processing" ELSE WatchedFolder

\* The printer the job goes to and the record names: the PRINTER hint of the
\* payload when there is one, else the configured / default printer.
PrinterOf(t) == IF tqr[t] = "tagp" THEN HintPrinter ELSE PRINTER_NAME

\* The print_id column of a record.
PrintIdOf(t) ==
    IF tqr[t] # "none" THEN "QS_1"
    ELSE IF variant = "yotsuya" THEN "unknown" ELSE ""

\* log_print_result: one row appended. doc is the document the row is about.
Record(t, d, result, msg) ==
    [doc |-> d, scan_file |-> key[t], print_id |-> PrintIdOf(t),
     printer |-> PrinterOf(t), result |-> result, error_message |-> msg]

\* A handler's locals once it has returned.
Returned(t, p) ==
    /\ pc' = [pc EXCEPT ![t] = p]
    /\ tdoc' = [tdoc EXCEPT ![t] = NoDoc]
    /\ tqr' = [tqr EXCEPT ![t] = "none"]
    /\ why' = [why EXCEPT ![t] = ""]
    /\ gateok' = [gateok EXCEPT ![t] = FALSE]

Goto(t, p) == pc' = [pc EXCEPT ![t] = p]

\* if file_key in processing_files: return
Check(t) ==
    /\ pc[t] = "start"
    /\ IF key[t] \in processing_files
       THEN Goto(t, "skipped")
       ELSE Goto(t, "add")
    /\ UNCHANGED <<envVars, docVars, processing_files, key, tdoc, tqr, why,
                   gateok, histVars>>

\* processing_files.add(file_key)
Add(t) ==
    /\ pc[t] = "add"
    /\ processing_files' = processing_files \cup {key[t]}
    /\ Goto(t, "gate")
    /\ UNCHANGED <<envVars, docVars, key, tdoc, tqr, why, gateok, histVars>>

\* AfterGate without its first test: a handler that goes on although
\* wait_until_file_stable returned false. C7's lifecycle order rejects it.
AfterGateIgnored(ok) ==
    IF variant = "yotsuya" THEN "qr"
    ELSE IF siteConfigured THEN "toproc" ELSE "fin"

\* Where handle_pdf goes with the gate's answer: on False it returns; on True
\* scan_printer.py next needs the campus in printers.yaml (and returns when it
\* is not there), scan_printer_yotsuya.py goes on to decode.
AfterGate(ok) ==
    IF ~ok THEN "fin"
    ELSE IF variant = "yotsuya" THEN "qr"
    ELSE IF siteConfigured THEN "toproc" ELSE "fin"

\* The file is there and its size has stopped changing.
Stable(d) == d # NoDoc /\ written[d] = "complete"

\* wait_until_file_stable, as the handler sees it: False when the file is
\* gone or has not stopped changing within the attempts, True when the size
\* has held; stat may raise something other than FileNotFoundError.
Gate(t) ==
    LET d == FileAt(WatchedFolder, Plain(key[t])) IN
    /\ pc[t] = "gate"
    /\ \/ /\ ~Stable(d)
          /\ Goto(t, AfterGate(FALSE))
          /\ UNCHANGED <<tdoc, gateok>>
       \/ /\ Stable(d)
          /\ Goto(t, AfterGate(TRUE))
          /\ tdoc' = [tdoc EXCEPT ![t] = d]
          /\ gateok' = [gateok EXCEPT ![t] = TRUE]
       \/ /\ faulty /\ d # NoDoc
          /\ Goto(t, "exc_in")
          /\ UNCHANGED <<tdoc, gateok>>
    /\ UNCHANGED <<envVars, docVars, processing_files, key, tqr, why, histVars>>

\* scan_printer.py: shutil.move(pdf_path, processing_dir / pdf_path.name);
\* any exception is logged and the handler returns.
ToProc(t) ==
    LET d == FileAt(WatchedFolder, Plain(key[t])) IN
    /\ pc[t] = "toproc"
    /\ \/ /\ d = NoDoc \/ faulty
          /\ Goto(t, "fin")
          /\ UNCHANGED <<loc, fname, recent>>
       \/ /\ d # NoDoc
          /\ loc' = MovedLoc(d, "processing", Plain(key[t]))
          /\ fname' = MovedName(d, Plain(key[t]))
          /\ recent' = [recent EXCEPT ![d] = FALSE]
          /\ Goto(t, "qr")
    /\ UNCHANGED <<envVars, written, qr, processing_files, key, tdoc, tqr, why,
                   gateok, histVars>>

\* The message logged when the decode gives nothing to print.
NoCodeMessage == IF variant = "campus" THEN "QR not found" ELSE "FILE not found in QR"

\* extract_print_id_from_qr, get_print_pdf_path and print_pdf, lines 335-399
\* (980-1047 in scan_printer_yotsuya.py): an unreadable (or missing) file
\* decodes to nothing; a decoded job's master file is there or not (the search
\* of scan_printer_yotsuya.py may also raise); print_pdf answers True when the
\* printer is found and a backend takes the job.
Dispatch(t) ==
    LET d == FileAt(WorkFolder, Plain(key[t]))
        payload == IF d = NoDoc THEN "none" ELSE qr[d]
    IN
    /\ pc[t] = "qr"
    /\ tqr' = [tqr EXCEPT ![t] = payload]
    /\ tdoc' = [tdoc EXCEPT ![t] = IF d = NoDoc THEN tdoc[t] ELSE d]
    /\ IF payload = "none"
       THEN /\ Goto(t, "mv_err")
            /\ why' = [why EXCEPT ![t] = NoCodeMessage]
            /\ UNCHANGED prints
       ELSE \/ /\ prints' = [prints EXCEPT ![d] = @ + 1]
               /\ Goto(t, "mv_done")
               /\ UNCHANGED why
            \/ /\ faulty
               /\ Goto(t, "mv_err")
               /\ why' \in {[why EXCEPT ![t] = "PDF not found"],
                            [why EXCEPT ![t] = "Print failed"]}
               /\ UNCHANGED prints
            \/ /\ faulty /\ variant = "yotsuya"
               /\ Goto(t, "exc_in")
               /\ UNCHANGED <<why, prints>>
    /\ UNCHANGED <<envVars, docVars, processing_files, key, gateok,
                   log, placed, finished, nresub>>

\* The terminal move and its record: shutil.move then log_print_result inside
\* one try; an exception of either is logged and swallowed. folder is done or
\* error, src the document at the handler's pdf_path (NoDoc when it is gone).
PlaceAndLog(t, src, folder, nm, result, msg) ==
    \/ /\ src = NoDoc \/ faulty
       /\ UNCHANGED <<loc, fname, recent, placed, log>>
    \/ /\ src # NoDoc
       /\ loc' = MovedLoc(src, folder, nm)
       /\ fname' = MovedName(src, nm)
       /\ recent' = [recent EXCEPT ![src] = FALSE]
       /\ placed' = [placed EXCEPT ![src] = @ + 1]
       /\ \/ log' = Append(log, Record(t, src, result, msg))
          \/ faulty /\ UNCHANGED log

\* The except-branch of handle_pdf a raised mkdir / exists / log leads to.
ExcPc == IF variant = "campus" THEN "exc_proc" ELSE "exc_in"

\* print_success: to done (processed). scan_printer.py moves and logs;
\* scan_printer_yotsuya.py first looks whether pdf_path still exists and, when
\* it does not, logs success without a move.
MoveDone(t) ==
    LET src == FileAt(WorkFolder, Plain(key[t])) IN
    /\ pc[t] = "mv_done"
    /\ \/ /\ variant = "campus"
          /\ PlaceAndLog(t, src, DoneFolder, Plain(key[t]), "success", "")
          /\ Goto(t, "fin")
       \/ /\ variant = "yotsuya" /\ src = NoDoc
          /\ log' = Append(log, Record(t, tdoc[t], "success", ""))
          /\ Goto(t, "fin")
          /\ UNCHANGED <<loc, fname, recent, placed>>
       \/ /\ variant = "yotsuya" /\ src # NoDoc
          /\ Goto(t, "mv_done2")
          /\ UNCHANGED <<loc, fname, recent, placed, log>>
       \/ /\ faulty
          /\ Goto(t, ExcPc)
          /\ UNCHANGED <<loc, fname, recent, placed, log>>
    /\ UNCHANGED <<envVars, written, qr, processing_files, key, tdoc, tqr, why,
                   gateok, prints, finished, nresub>>

\* scan_printer_yotsuya.py, lines 1063-1092: the destination gets a timestamp
\* when the name is taken; FileNotFoundError from the move is logged as a
\* success, any other exception only reported.
MoveDone2(t) ==
    LET src == FileAt(WatchedFolder, Plain(key[t])) IN
    /\ pc[t] = "mv_done2"
    /\ \/ /\ src = NoDoc
          /\ log' = Append(log, Record(t, tdoc[t], "success", ""))
          /\ UNCHANGED <<loc, fname, recent, placed>>
       \/ /\ src # NoDoc
          /\ \E s \in Stamps :
               PlaceAndLog(t, src, DoneFolder, DestName(DoneFolder, key[t], s),
                           "success", "")
    /\ Goto(t, "fin")
    /\ UNCHANGED <<envVars, written, qr, processing_files, key, tdoc, tqr, why,
                   gateok, prints, finished, nresub>>

\* No code, no master file or a failed print: to the error folder, with a
\* record that carries the message.
MoveErr(t) ==
    LET src == FileAt(WorkFolder, Plain(key[t])) IN
    /\ pc[t] = "mv_err"
    /\ \/ /\ \E s \in Stamps :
               PlaceAndLog(t, src, ErrorFolder, DestName(ErrorFolder, key[t], s),
                           "error", why[t])
          /\ Goto(t, "fin")
       \/ /\ faulty
          /\ Goto(t, ExcPc)
          /\ UNCHANGED <<loc, fname, recent, placed, log>>
    /\ UNCHANGED <<envVars, written, qr, processing_files, key, tdoc, tqr, why,
                   gateok, prints, finished, nresub>>

\* except Exception at the top of handle_pdf: when pdf_path still exists it
\* is moved to the error folder; nothing is written to the outcome log, and a
\* failure of the move is passed over.
Exc(t) ==
    LET folder == IF pc[t] = "exc_proc" THEN "processing" ELSE WatchedFolder
        src == FileAt(folder, Plain(key[t]))
    IN
    /\ pc[t] \in {"exc_in", "exc_proc"}
    /\ \/ /\ src = NoDoc \/ faulty
          /\ UNCHANGED <<loc, fname, recent, placed>>
       \/ /\ src # NoDoc
          /\ \E s \in Stamps :
               /\ loc' = MovedLoc(src, ErrorFolder, DestName(ErrorFolder, key[t], s))
               /\ fname' = MovedName(src, DestName(ErrorFolder, key[t], s))
          /\ recent' = [recent EXCEPT ![src] = FALSE]
          /\ placed' = [placed EXCEPT ![src] = @ + 1]
    /\ Goto(t, "fin")
    /\ UNCHANGED <<envVars, written, qr, processing_files, key, tdoc, tqr, why,
                   gateok, log, prints, finished, nresub>>

\* Discard without the removal: a finally block that leaves the entry in
\* processing_files. C9's release of the guard rejects it.
DiscardNothing(files, k) == files

\* processing_files.discard(file_key)
Discard(files, k) == files \ {k}

\* finally: the guard entry is released and the handler returns.
Fin(t) ==
    /\ pc[t] = "fin"
    /\ processing_files' = Discard(processing_files, key[t])
    /\ finished' = IF gateok[t] /\ tdoc[t] # NoDoc
                   THEN [finished EXCEPT ![tdoc[t]] = TRUE]
                   ELSE finished
    /\ Returned(t, "done")
    /\ UNCHANGED <<envVars, docVars, key, log, prints, placed, nresub>>

\* ------------------------------------------------------------------- Next
Next ==
    \/ \E n \in Names, q \in QRKinds, deliver \in BOOLEAN : ScanCreate(n, q, deliver)
    \/ \E d \in Docs, w \in {"partial", "complete"}, deliver \in BOOLEAN :
         ScanWrite(d, w, deliver)
    \/ \E n \in Names, q \in QRKinds, deliver \in BOOLEAN : ScanRename(n, q, deliver)
    \/ \E d \in Docs : Age(d)
    \/ \E d \in Docs, r \in BOOLEAN, deliver \in BOOLEAN : Resubmit(d, r, deliver)
    \/ \E n \in Names : Poll(n)
    \/ \E t \in Threads : Check(t)
    \/ \E t \in Threads : Add(t)
    \/ \E t \in Threads : Gate(t)
    \/ \E t \in Threads : ToProc(t)
    \/ \E t \in Threads : Dispatch(t)
    \/ \E t \in Threads : MoveDone(t)
    \/ \E t \in Threads : MoveDone2(t)
    \/ \E t \in Threads : MoveErr(t)
    \/ \E t \in Threads : Exc(t)
    \/ \E t \in Threads : Fin(t)

Spec == Init /\ [][Next]_vars

\* ------------------------------------------------------- scan_router.py
\* The names taken in the teacher folders.
OutNames == {rname[f] : f \in {g \in RScans : rloc[g] = "out"}}

\* build_destination without its numbering: always <base>.pdf. C20's
\* collision-safe naming rejects it.
BuildDestinationPlain(parsed) == [base |-> parsed, n |-> 1]

\* build_destination: <base>.pdf when that name is free, else the first free
\* <base>_n.pdf counting n up from 2.
BuildDestination(parsed) ==
    IF [base |-> parsed, n |-> 1] \notin OutNames
    THEN [base |-> parsed, n |-> 1]
    ELSE [base |-> parsed,
          n |-> CHOOSE n \in 2..(MaxScans + 1) :
                  /\ [base |-> parsed, n |-> n] \notin OutNames
                  /\ \A m \in 2..(n - 1) : [base |-> parsed, n |-> m] \in OutNames]

RLine(tag, f, text) == [tag |-> tag, scan |-> f, text |-> text]

RUnbornScans == {f \in RScans : rloc[f] = "unborn"}

\* The scanner puts a finished PDF into the inbox; watchdog queues on_created,
\* and with twice a second event for the same path (on_moved, or the share
\* reporting the creation again).
RArrive(p, twice) ==
    /\ RUnbornScans # {}
    /\ LET f == CHOOSE g \in RUnbornScans : \A h \in RUnbornScans : g <= h IN
       /\ rloc' = [rloc EXCEPT ![f] = "inbox"]
       /\ rpay' = [rpay EXCEPT ![f] = p]
       /\ rqueue' = IF twice THEN rqueue \o <<f, f>> ELSE Append(rqueue, f)
    /\ UNCHANGED <<rname, rpc, rcur, rdst, rlog, routerRest>>

\* Somebody takes the file out of the shared inbox.
RRemove(f) ==
    /\ rloc[f] = "inbox"
    /\ rloc' = [rloc EXCEPT ![f] = "removed"]
    /\ UNCHANGED <<rpay, rname, rqueue, rpc, rcur, rdst, rlog, routerRest>>

\* A teacher takes a filed scan out of the teacher folder.
RTake(f) ==
    /\ rloc[f] = "out"
    /\ rloc' = [rloc EXCEPT ![f] = "taken"]
    /\ UNCHANGED <<rpay, rname, rqueue, rpc, rcur, rdst, rlog, routerRest>>

\* The observer thread dispatches the next event: PDFHandler.on_created /
\* on_moved sleep and call handle_pdf in the same thread.
RBegin ==
    /\ rpc = "idle"
    /\ rqueue # <<>>
    /\ rcur' = Head(rqueue)
    /\ rqueue' = Tail(rqueue)
    /\ rpc' = "gate"
    /\ UNCHANGED <<rloc, rpay, rname, rdst, rlog, routerRest>>

\* handle_pdf returns to the observer thread.
RReturn(line) ==
    /\ rlog' = rlog \cup {line}
    /\ rpc' = "idle"
    /\ rcur' = NoDoc
    /\ rdst' = NoName

\* wait_until_file_stable: False when the file has disappeared.
RGate ==
    /\ rpc = "gate"
    /\ IF rloc[rcur] = "inbox"
       THEN /\ rpc' = "decode"
            /\ UNCHANGED <<rcur, rdst, rlog>>
       ELSE RReturn(RLine("UNSTABLE", rcur, <<>>))
    /\ UNCHANGED <<rloc, rpay, rname, rqueue, routerRest>>

\* render_first_page_to_image, decode_qr_from_image, parse_qr_payload and
\* build_destination: a file that is gone raises (caught at the bottom of
\* handle_pdf); no code and a bad payload go to move_to_error, which only
\* writes a line; a good payload gives dst.
RDecode ==
    /\ rpc = "decode"
    /\ IF rloc[rcur] # "inbox"
       THEN RReturn(RLine("FAILED", rcur, <<"open">>))
       ELSE IF rpay[rcur] = <<>>
       THEN RReturn(RLine("NOQR", rcur, <<>>))
       ELSE IF ParseQrPayload(rpay[rcur]) = None
       THEN RReturn(RLine("BADQR", rcur, RawText(rpay[rcur])))
       ELSE /\ rdst' = BuildDestination(ParseQrPayload(rpay[rcur]))
            /\ rpc' = "move"
            /\ UNCHANGED <<rcur, rlog>>
    /\ UNCHANGED <<rloc, rpay, rname, rqueue, routerRest>>

\* shutil.move(str(pdf_path), str(dst)): FileNotFoundError when the source is
\* gone, which the except at the bottom of handle_pdf logs as a failure; a
\* file already at dst would be replaced.
RMove ==
    /\ rpc = "move"
    /\ IF rloc[rcur] # "inbox"
       THEN /\ RReturn(RLine("FAILED", rcur, <<"move">>))
            /\ UNCHANGED <<rloc, rname>>
       ELSE /\ rloc' = [f \in RScans |->
                          IF f = rcur THEN "out"
                          ELSE IF rloc[f] = "out" /\ rname[f] = rdst THEN "lost"
                          ELSE rloc[f]]
            /\ rname' = [rname EXCEPT ![rcur] = rdst]
            /\ RReturn(RLine("OK", rcur, <<>>))
    /\ UNCHANGED <<rpay, rqueue, routerRest>>

RouterNext ==
    \/ \E p \in RPayloads, twice \in BOOLEAN : RArrive(p, twice)
    \/ \E f \in RScans : RRemove(f)
    \/ \E f \in RScans : RTake(f)
    \/ RBegin
    \/ RGate
    \/ RDecode
    \/ RMove

\* The router starts; everything else is at rest.
RouterStart == IntakeAtRest /\ ComponentsAtRest

RouterSpec == RouterStart /\ [][RouterNext]_vars

\* ------------------------------------------------- wait_until_file_stable
\* SameAsLast without the comparison: any non-empty size counts as a repeat.
\* C13 rejects it.
SameAsLastAny(size, last) == size > 0

\* if size == last and size > 0
SameAsLast(size, last) == size = last /\ size > 0

\* Enough one repeat short. C14 rejects it.
EnoughEarly(stable) == stable >= STABLE_CHECK_COUNT - 1

\* if stable >= STABLE_CHECK_COUNT: return True
Enough(stable) == stable >= STABLE_CHECK_COUNT

\* The last Window samples, the newest last.
Keep(h) == IF Len(h) <= Window THEN h ELSE SubSeq(h, Len(h) - Window + 1, Len(h))

\* One iteration of the loop: path.stat().st_size gives size.
GSample(size) ==
    /\ gret = "running"
    /\ gi < Attempts
    /\ ghist' = Keep(Append(ghist, size))
    /\ IF SameAsLast(size, glast)
       THEN /\ gstable' = gstable + 1
            /\ glast' = glast
            /\ IF Enough(gstable + 1)
               THEN gret' = "true" /\ gi' = gi
               ELSE gret' = gret /\ gi' = gi + 1
       ELSE /\ gstable' = 0
            /\ glast' = size
            /\ gret' = gret
            /\ gi' = gi + 1
    /\ UNCHANGED gateRest

\* path.stat() raises FileNotFoundError: return False.
GGone ==
    /\ gret = "running"
    /\ gi < Attempts
    /\ gret' = "false"
    /\ UNCHANGED <<glast, gstable, gi, ghist, gateRest>>

\* The loop ends after Attempts iterations: return False.
GExhaust ==
    /\ gret = "running"
    /\ gi = Attempts
    /\ gret' = "false"
    /\ UNCHANGED <<glast, gstable, gi, ghist, gateRest>>

GateNext ==
    \/ \E size \in Sizes : GSample(size)
    \/ GGone
    \/ GExhaust

\* wait_until_file_stable is called; everything else is at rest.
GateStart == IntakeAtRest /\ ComponentsAtRest

GateSpec == GateStart /\ [][GateNext]_vars

\* --------------------------------------------------- find_printer_by_name
\* a in b, for strings.
InStr(a, b) ==
    \E k \in 0..(Len(b) - Len(a)) : \A j \in 1..Len(a) : b[k + j] = a[j]

\* x in xs, for a list.
InList(x, xs) == \E k \in 1..Len(xs) : xs[k] = x

\* for printer in available_printers: if <test>: return printer
\* The index of the first printer among those the test accepts (given by
\* their indices), 0 if there is none.
FirstIndex(accepted) ==
    IF accepted = {} THEN 0
    ELSE CHOOSE k \in accepted : \A j \in accepted : k <= j

\* The substring searches only, without the exact match that comes first.
\* C15 rejects it.
FindPrinterBySubstring(name, printers, config) ==
    LET Either == {k \in 1..Len(printers) :
                    InStr(name, printers[k]) \/ InStr(printers[k], name)}
        e == FirstIndex(Either)
    IN  IF e > 0 THEN Printer(printers[e]) ELSE NoPrinter

\* find_printer_by_name: the exact match, then the printers.yaml mapping, then
\* the substring search in either direction, then the search for printers
\* that contain the hint. An unreadable printers.yaml is an empty one.
FindPrinterByName(name, printers, config) ==
    LET Mapped == {k \in 1..Len(printers) :
                    InStr(name, printers[k]) \/ InStr(printers[k], name)}
        Either == {k \in 1..Len(printers) :
                    InStr(name, printers[k]) \/ InStr(printers[k], name)}
        Contains == {k \in 1..Len(printers) : InStr(name, printers[k])}
        m == IF InList(name, config) THEN FirstIndex(Mapped) ELSE 0
        e == FirstIndex(Either)
        c == FirstIndex(Contains)
    IN  IF InList(name, printers) THEN Printer(name)
        ELSE IF m > 0 THEN Printer(printers[m])
        ELSE IF e > 0 THEN Printer(printers[e])
        ELSE IF c > 0 THEN Printer(printers[c])
        ELSE NoPrinter

\* A call: any hint, any list of installed printers, any printers.yaml.
PrinterInit ==
    /\ qr_printer_name \in PrinterStrings
    /\ available_printers \in SeqsUpTo(PrinterStrings, MaxPrinters)
    /\ printer_config \in SeqsUpTo(PrinterStrings, 1)
    /\ presult = NoPrinter
    /\ ppc = "call"

PResolve ==
    /\ ppc = "call"
    /\ presult' = FindPrinterByName(qr_printer_name, available_printers, printer_config)
    /\ ppc' = "returned"
    /\ UNCHANGED <<qr_printer_name, available_printers, printer_config, printerRest>>

PrinterNext == PResolve

\* find_printer_by_name is called; everything else is at rest.
PrinterStart ==
    IntakeAtRest /\ RouterInit /\ GateInit /\ BackendAtRest /\ PrinterInit
    /\ MappingAtRest
    /\ GrammarAtRest
    /\ LadderAtRest
    /\ ResolverAtRest
    /\ JobAtRest
    /\ StampAtRest
    /\ LoggerAtRest

PrinterSpec == PrinterStart /\ [][PrinterNext]_vars

\* -------------------------------------------------- print_pdf's backends
BGoto(t, p) == bpc' = [bpc EXCEPT ![t] = p]

\* return True / return False
BReturn(t, ok) ==
    /\ BGoto(t, "returned")
    /\ bret' = [bret EXCEPT ![t] = IF ok THEN "true" ELSE "false"]

BStarts(t, backend) == attempts' = [attempts EXCEPT ![t] = Append(@, backend)]

\* handle_pdf calls print_pdf; the printer is resolved (find_printer_by_name)
\* and the file is at hand.
BCall(t, name) ==
    /\ bpc[t] = "idle"
    /\ printer_name' = [printer_name EXCEPT ![t] = name]
    /\ BGoto(t, "find")
    /\ UNCHANGED <<sumatra_path, acrobat_path, sysdefault, original,
                   default_printer, bresult, attempts, bret, backendRest>>

\* if sumatra_path: ... elif acrobat_path: ... else: return False
BFind(t) ==
    /\ bpc[t] = "find"
    /\ IF sumatra_path THEN BGoto(t, "sumatra") /\ UNCHANGED bret
       ELSE IF acrobat_path THEN BGoto(t, "acrobat") /\ UNCHANGED bret
       ELSE BReturn(t, FALSE)
    /\ UNCHANGED <<sumatra_path, acrobat_path, sysdefault, original,
                   printer_name, default_printer, bresult, attempts, backendRest>>

\* SumatraPDF -print-to: exit code 0 or a timeout is success; anything else
\* raises, and the except-branch goes to the default-printer swap.
BSumatra(t, ok) ==
    /\ bpc[t] = "sumatra"
    /\ BStarts(t, "sumatra")
    /\ IF ok THEN BReturn(t, TRUE) ELSE BGoto(t, "get") /\ UNCHANGED bret
    /\ UNCHANGED <<sumatra_path, acrobat_path, sysdefault, original,
                   printer_name, default_printer, bresult, backendRest>>

\* Acrobat /t, only where no SumatraPDF was found: a result > 32 is success;
\* anything else raises, and the except-branch goes to the swap.
BAcrobat(t, ok) ==
    /\ bpc[t] = "acrobat"
    /\ BStarts(t, "acrobat")
    /\ IF ok THEN BReturn(t, TRUE) ELSE BGoto(t, "get") /\ UNCHANGED bret
    /\ UNCHANGED <<sumatra_path, acrobat_path, sysdefault, original,
                   printer_name, default_printer, bresult, backendRest>>

\* default_printer = win32print.GetDefaultPrinter()
BGetDefault(t) ==
    /\ bpc[t] = "get"
    /\ BStarts(t, "swap")
    /\ default_printer' = [default_printer EXCEPT ![t] = sysdefault]
    /\ BGoto(t, "set")
    /\ UNCHANGED <<sumatra_path, acrobat_path, sysdefault, original,
                   printer_name, bresult, bret, backendRest>>

\* win32print.SetDefaultPrinter(printer_name)
BSetDefault(t) ==
    /\ bpc[t] = "set"
    /\ sysdefault' = printer_name[t]
    /\ BGoto(t, "print")
    /\ UNCHANGED <<sumatra_path, acrobat_path, original, printer_name,
                   default_printer, bresult, attempts, bret, backendRest>>

\* win32api.ShellExecute(0, "print", ...): a result > 32, a result <= 32, or
\* an exception.
BShellPrint(t, outcome) ==
    /\ bpc[t] = "print"
    /\ IF outcome = "raise"
       THEN BGoto(t, "except") /\ UNCHANGED bresult
       ELSE /\ BGoto(t, "restore")
            /\ bresult' = [bresult EXCEPT ![t] = (outcome = "ok")]
    /\ UNCHANGED <<sumatra_path, acrobat_path, sysdefault, original,
                   printer_name, default_printer, attempts, bret, backendRest>>

\* win32print.SetDefaultPrinter(default_printer), then return by the result.
BRestore(t) ==
    /\ bpc[t] = "restore"
    /\ sysdefault' = default_printer[t]
    /\ BReturn(t, bresult[t])
    /\ UNCHANGED <<sumatra_path, acrobat_path, original, printer_name,
                   default_printer, bresult, attempts, backendRest>>

\* except Exception: if 'default_printer' in locals(): SetDefaultPrinter(
\* default_printer); return False
BExcept(t) ==
    /\ bpc[t] = "except"
    /\ sysdefault' = IF default_printer[t] # NotSet THEN default_printer[t]
                     ELSE sysdefault
    /\ BReturn(t, FALSE)
    /\ UNCHANGED <<sumatra_path, acrobat_path, original, printer_name,
                   default_printer, bresult, attempts, backendRest>>

BackendNext ==
    \E t \in Threads :
        \/ \E name \in {PRINTER_NAME, HintPrinter} : BCall(t, name)
        \/ BFind(t)
        \/ \E ok \in BOOLEAN : BSumatra(t, ok)
        \/ \E ok \in BOOLEAN : BAcrobat(t, ok)
        \/ BGetDefault(t)
        \/ BSetDefault(t)
        \/ \E outcome \in {"ok", "bad", "raise"} : BShellPrint(t, outcome)
        \/ BRestore(t)
        \/ BExcept(t)

\* The workers are about to call print_pdf; everything else is at rest.
BackendStart ==
    IntakeAtRest /\ RouterInit /\ GateInit /\ PrinterAtRest /\ BackendInit
    /\ MappingAtRest
    /\ GrammarAtRest
    /\ LadderAtRest
    /\ ResolverAtRest
    /\ JobAtRest
    /\ StampAtRest
    /\ LoggerAtRest

BackendSpec == BackendStart /\ [][BackendNext]_vars

\* ------------------------------------------------ save_print_id_mapping
\* key in dict
HasKey(items, k) == \E j \in 1..Len(items) : items[j][1] = k

\* dict[key] = value: a key already there keeps its place.
DictPut(items, k, v) ==
    IF HasKey(items, k)
    THEN [j \in 1..Len(items) |-> IF items[j][1] = k THEN <<k, v>> ELSE items[j]]
    ELSE Append(items, <<k, v>>)

\* dict[key], NotSet without the key.
DictGet(items, k) ==
    IF HasKey(items, k)
    THEN items[CHOOSE j \in 1..Len(items) : items[j][1] = k][2]
    ELSE NotSet

RECURSIVE ReadMappings(_)
\* for row in csv.DictReader(f): existing_mappings[row["print_id"]] =
\* row["filename"]
ReadMappings(rows) ==
    IF rows = <<>> THEN <<>>
    ELSE LET row == rows[Len(rows)] IN
         DictPut(ReadMappings(SubSeq(rows, 1, Len(rows) - 1)),
                 row.print_id, row.filename)

\* writer.writerow({"print_id": pid, "filename": fname}) for each item.
WrittenRows(items) ==
    [j \in 1..Len(items) |-> [print_id |-> items[j][1], filename |-> items[j][2]]]

RECURSIVE LoadPrintIdMapping(_)
\* load_print_id_mapping: both columns stripped, a row with an empty column
\* passed over.
LoadPrintIdMapping(rows) ==
    IF rows = <<>> THEN <<>>
    ELSE LET row == rows[Len(rows)]
             before == LoadPrintIdMapping(SubSeq(rows, 1, Len(rows) - 1))
         IN  IF Strip(row.print_id) # "" /\ Strip(row.filename) # ""
             THEN DictPut(before, Strip(row.print_id), Strip(row.filename))
             ELSE before

\* A request handler or a worker calls save_print_id_mapping(print_id,
\* filename).
MCall(t, prog, k, v) ==
    /\ mpc[t] \in {"idle", "returned"}
    /\ mcalls < MaxSaves
    /\ mcalls' = mcalls + 1
    /\ mprog' = [mprog EXCEPT ![t] = prog]
    /\ mid' = [mid EXCEPT ![t] = k]
    /\ mfn' = [mfn EXCEPT ![t] = v]
    /\ existing_mappings' = [existing_mappings EXCEPT ![t] = <<>>]
    /\ mpc' = [mpc EXCEPT ![t] = "read"]
    /\ moverlap' = (moverlap \/ \E u \in Threads : mpc[u] \in {"read", "write"})
    /\ mlast' = [mlast EXCEPT ![k] = v]
    /\ UNCHANGED <<mexists, mrows, mappingRest>>

\* The table is read into existing_mappings; scan_printer_yotsuya.py returns
\* when the identifier is in it.
MRead(t) ==
    LET items == IF mexists THEN ReadMappings(mrows) ELSE <<>> IN
    /\ mpc[t] = "read"
    /\ existing_mappings' = [existing_mappings EXCEPT ![t] = items]
    /\ mpc' = [mpc EXCEPT ![t] =
                 IF mprog[t] = "yotsuya" /\ HasKey(items, mid[t])
                 THEN "returned" ELSE "write"]
    /\ UNCHANGED <<mexists, mrows, mprog, mid, mfn, mcalls, moverlap, mlast,
                   mappingRest>>

\* existing_mappings[print_id] = filename, and the table is written anew.
MWrite(t) ==
    /\ mpc[t] = "write"
    /\ mexists' = TRUE
    /\ mrows' = WrittenRows(DictPut(existing_mappings[t], mid[t], mfn[t]))
    /\ mpc' = [mpc EXCEPT ![t] = "returned"]
    /\ UNCHANGED <<mprog, mid, mfn, existing_mappings, mcalls, moverlap, mlast,
                   mappingRest>>

MappingNext ==
    \E t \in Threads :
        \/ \E prog \in {"app", "yotsuya"}, k \in PrintIds, v \in FileHints :
                MCall(t, prog, k, v)
        \/ MRead(t)
        \/ MWrite(t)

\* The programs start with no table; everything else is at rest.
MappingStart == IntakeAtRest /\ ComponentsAtRest

MappingSpec == MappingStart /\ [][MappingNext]_vars

\* ------------------------------------------------------ payload parsers
RECURSIVE Join(_)
\* ",".join(fields)
Join(fields) ==
    IF fields = <<>> THEN <<>>
    ELSE IF Len(fields) = 1 THEN fields[1]
    ELSE fields[1] \o <<",">> \o Join(Tail(fields))

RECURSIVE StripText(_)
\* str.strip()
StripText(text) ==
    IF text = <<>> THEN <<>>
    ELSE IF Head(text) = Blank THEN StripText(Tail(text))
    ELSE IF text[Len(text)] = Blank THEN StripText(SubSeq(text, 1, Len(text) - 1))
    ELSE text

RECURSIVE SplitComma(_)
\* str.split(",")
SplitComma(text) ==
    LET commas == {k \in 1..Len(text) : text[k] = ","} IN
    IF commas = {} THEN <<text>>
    ELSE LET k == CHOOSE c \in commas : \A d \in commas : c <= d IN
         <<SubSeq(text, 1, k - 1)>> \o SplitComma(SubSeq(text, k + 1, Len(text)))

\* The characters that end a value: the classes [^,\s], [^,] and \S are
\* all characters but these.
CommaOrBlank == {",", Blank}

Comma == {","}

\* The end of the longest run of characters outside stops that starts at
\* from.
RunEnd(text, from, stops) ==
    CHOOSE j \in from..Len(text) :
        /\ \A k \in from..j : text[k] \notin stops
        /\ j = Len(text) \/ text[j + 1] \in stops

\* re.search(r'KEY=([^,\s]+)', text) and re.search(r'KEY=([^,]+)', text):
\* group 1 of the leftmost match, Nil without a match.
SearchTag(text, word, stops) ==
    LET starts == {k \in 1..(Len(text) - 2) :
                    text[k] = word /\ text[k + 1] = "=" /\ text[k + 2] \notin stops}
    IN  IF starts = {} THEN Nil
        ELSE LET k == CHOOSE c \in starts : \A d \in starts : c <= d IN
             SubSeq(text, k + 2, RunEnd(text, k + 2, stops))

\* re.match(r'PRINT_ID=(\S+)', text): group 1, Nil without a match.
MatchOldForm(text) ==
    IF Len(text) >= 3 /\ text[1] = "P" /\ text[2] = "=" /\ text[3] # Blank
    THEN SubSeq(text, 3, RunEnd(text, 3, {Blank}))
    ELSE Nil

\* urllib.parse.unquote: "%" stands for the escape %2F, and "%20" and "%2C"
\* are the escapes of the blank and the comma.
Unquote(text) ==
    [k \in 1..Len(text) |->
        IF text[k] = "%" THEN "/"
        ELSE IF text[k] = "%20" THEN Blank
        ELSE IF text[k] = "%2C" THEN ","
        ELSE text[k]]

\* extract_print_id_from_qr of scan_printer_yotsuya.py, from qr_data on:
\* (print_id, original_filename, printer_name).
ExtractTags(text) ==
    LET new == SearchTag(text, "P", CommaOrBlank)
        old == MatchOldForm(text)
        print_id == IF new # Nil THEN StripText(new)
                    ELSE IF old # Nil THEN StripText(old)
                    ELSE Nil
        file == SearchTag(text, "F", Comma)
        original_filename == IF file # Nil THEN Unquote(StripText(file)) ELSE Nil
        printer == SearchTag(text, "R", CommaOrBlank)
        hint == IF printer # Nil THEN StripText(printer) ELSE Nil
    IN  IF print_id # Nil THEN <<print_id, original_filename, hint>>
        ELSE <<Nil, Nil, Nil>>

\* extract_print_id_from_qr of scan_printer.py, from qr_data on:
\* (print_id, printer_name).
ExtractTagsCampus(text) ==
    LET new == SearchTag(text, "P", CommaOrBlank)
        printer == SearchTag(text, "R", CommaOrBlank)
    IN  <<IF new # Nil THEN StripText(new) ELSE Nil,
          IF printer # Nil THEN StripText(printer) ELSE Nil>>

\* parse_qr_payload without the tests for an empty student or teacher.
\* C26 rejects it.
ParseQrTextAny(text) ==
    LET p == StripText(text)
        split == SplitComma(p)
        parts == [k \in 1..Len(split) |-> StripText(split[k])]
    IN  IF \A k \in 1..Len(p) : p[k] # "," THEN Nil
        ELSE IF Len(parts) = 2 THEN <<parts[2], parts[1], Nil>>
        ELSE <<parts[2], parts[1], parts[3]>>

\* parse_qr_payload on the text itself: (teacher, student, text_name), Nil for
\* None.
ParseQrText(text) ==
    LET p == StripText(text)
        split == SplitComma(p)
        parts == [k \in 1..Len(split) |-> StripText(split[k])]
    IN  IF \A k \in 1..Len(p) : p[k] # "," THEN Nil
        ELSE IF Len(parts) = 2
             THEN IF parts[1] = <<>> \/ parts[2] = <<>> THEN Nil
                  ELSE <<parts[2], parts[1], Nil>>
        ELSE IF parts[1] = <<>> \/ parts[2] = <<>> THEN Nil
             ELSE <<parts[2], parts[1], parts[3]>>

\* A scan's code is decoded: any payload made of up to MaxFields pieces.
QRead(fields) ==
    /\ qpc = "idle"
    /\ qfields' = fields
    /\ qr_data' = Join(fields)
    /\ qpc' = "read"
    /\ UNCHANGED <<qtags, qcampus, qtuple, grammarRest>>

QExtract ==
    /\ qpc = "read"
    /\ ~qtags.done
    /\ qtags' = Parsed(ExtractTags(qr_data))
    /\ UNCHANGED <<qfields, qr_data, qpc, qcampus, qtuple, grammarRest>>

QExtractCampus ==
    /\ qpc = "read"
    /\ ~qcampus.done
    /\ qcampus' = Parsed(ExtractTagsCampus(qr_data))
    /\ UNCHANGED <<qfields, qr_data, qpc, qtags, qtuple, grammarRest>>

QParse ==
    /\ qpc = "read"
    /\ ~qtuple.done
    /\ qtuple' = Parsed(ParseQrText(qr_data))
    /\ UNCHANGED <<qfields, qr_data, qpc, qtags, qcampus, grammarRest>>

GrammarNext ==
    \/ \E fields \in SeqsUpTo(Pieces, MaxFields) : QRead(fields)
    \/ QExtract
    \/ QExtractCampus
    \/ QParse

\* No code decoded yet; everything else is at rest.
GrammarStart == IntakeAtRest /\ ComponentsAtRest

GrammarSpec == GrammarStart /\ [][GrammarNext]_vars

\* --------------------------------------------------- decode_qr_from_image
\* _try_decode without the strip: whatever the detector gave, blanks
\* included. C30 rejects it.
TryDecodeRaw(data) ==
    IF data = Raised THEN Nil
    ELSE IF data = <<>> THEN Nil
    ELSE data

\* _try_decode: data = (data or "").strip(); data if data else None; None
\* when the detector raises. StripText is defined with the payload parsers.
TryDecode(data) ==
    IF data = Raised THEN Nil
    ELSE IF StripText(data) = <<>> THEN Nil
    ELSE StripText(data)

\* The first stage at or after k that the image allows: the stages on the
\* region are passed over when roi.size is 0. Len(Ladder) + 1 after the last.
StageFrom(k, roi) ==
    LET ok == {j \in k..Len(Ladder) : roi \/ Ladder[j] \notin RoiStages} IN
    IF ok = {} THEN Len(Ladder) + 1
    ELSE CHOOSE j \in ok : \A m \in ok : j <= m

\* handle_pdf calls decode_qr_from_image(img): any page image.
LCall(roi) ==
    /\ lpc = "idle"
    /\ roi_size' = roi
    /\ lnext' = StageFrom(1, roi)
    /\ lpc' = "try"
    /\ UNCHANGED <<ltried, lret, ladderRest>>

\* One stage: data = _try_decode(...); if data: return data. After the last
\* stage: return data if data else None.
LTry(data) ==
    /\ lpc = "try"
    /\ lnext <= Len(Ladder)
    /\ ltried' = Append(ltried, [stage |-> Ladder[lnext], data |-> data])
    /\ IF TryDecode(data) # Nil \/ StageFrom(lnext + 1, roi_size) > Len(Ladder)
       THEN /\ lret' = TryDecode(data)
            /\ lpc' = "returned"
            /\ lnext' = lnext
       ELSE /\ lnext' = StageFrom(lnext + 1, roi_size)
            /\ UNCHANGED <<lpc, lret>>
    /\ UNCHANGED <<roi_size, ladderRest>>

LadderNext ==
    \/ \E roi \in BOOLEAN : LCall(roi)
    \/ \E data \in DetectorData : LTry(data)

\* No image decoded yet; everything else is at rest.
LadderStart == IntakeAtRest /\ ComponentsAtRest

LadderSpec == LadderStart /\ [][LadderNext]_vars

\* ----------------------------------------------------- get_print_pdf_path
\* The files that can lie under PDF_DIR, as paths relative to it, in the
\* order the file system lists them: the hinted file, a file of the same
\* name in the root, and other files of the hinted folder d.
MasterFiles ==
    << <<"d", "/", "a", "b", ".pdf">>,
       <<"a", "b", ".pdf">>,
       <<"d", "/", "B", ".pdf">>,
       <<"d", "/", "a", ".pdf">>,
       <<"d", "/", "a", "b", "x", "x", ".pdf">>,
       <<"d", "/", "b", "x", "x", "x", "x", ".pdf">> >>

\* The files that can lie under fallback_pdf_dir.
LegacyFiles ==
    << <<"d", "/", "a", "b", ".pdf">>,
       <<"d", "/", "a", ".pdf">> >>

\* The FILE hints of the jobs: with a folder, without one, with a blank
\* before it, and with a keyword and a delimiter.
Hints ==
    { <<"d", "/", "a", "b", ".pdf">>,
      <<"a", "b", "_", "x">>,
      <<Blank, "d", "/", "a", "b", ".pdf">>,
      <<"d", "/", "a", "b", "_", "x", ".pdf">> }

\* The names of the scanned files.
ScanNames ==
    { <<"s", ".pdf">>,
      <<"d", "_", "a", ".pdf", " - QS printer.pdf">> }

\* Optional[Path] that is None.
NoPath == <<>>

\* The elements of a list.
FilesOf(list) == {list[k] : k \in 1..Len(list)}

Reverse(list) == [k \in 1..Len(list) |-> list[Len(list) + 1 - k]]

\* The files of a root in the order rglob and glob yield them.
Listed(files, order, rev) ==
    LET present == SelectSeq(order, LAMBDA p : p \in files) IN
    IF rev THEN Reverse(present) ELSE present

\* The path separators pathlib knows on Windows.
Separators == {"/", "\\"}

HasSep(text, seps) == \E k \in 1..Len(text) : text[k] \in seps

\* The place of the last separator, 0 without one.
LastSep(text, seps) ==
    LET at == {k \in 1..Len(text) : text[k] \in seps} IN
    IF at = {} THEN 0 ELSE CHOOSE k \in at : \A j \in at : j <= k

\* Path(text).name
PathName(text) == SubSeq(text, LastSep(text, Separators) + 1, Len(text))

\* Path(text).stem
PathStem(text) ==
    LET name == PathName(text) IN
    IF Len(name) > 1 /\ name[Len(name)] = ".pdf"
    THEN SubSeq(name, 1, Len(name) - 1) ELSE name

\* "/".join(text.split("/")[:-1]) if "/" in text else ""
FolderPath(text) ==
    IF HasSep(text, {"/"}) THEN SubSeq(text, 1, LastSep(text, {"/"}) - 1)
    ELSE <<>>

\* str.endswith
EndsWith(text, tail) ==
    /\ Len(tail) <= Len(text)
    /\ SubSeq(text, Len(text) - Len(tail) + 1, Len(text)) = tail

\* str.lower()
Lower(text) ==
    [k \in 1..Len(text) |->
        IF text[k] = "A" THEN "a" ELSE IF text[k] = "B" THEN "b" ELSE text[k]]

\* The characters the keywords are split on: _ and -, replaced by blanks,
\* and the blank.
Delimiters == {"_", "-", Blank}

RECURSIVE SplitWords(_)
\* text.replace("_", " ").replace("-", " ").split()
SplitWords(text) ==
    IF text = <<>> THEN <<>>
    ELSE IF Head(text) \in Delimiters THEN SplitWords(Tail(text))
    ELSE LET e == RunEnd(text, 1, Delimiters) IN
         <<SubSeq(text, 1, e)>> \o SplitWords(SubSeq(text, e + 1, Len(text)))

\* keywords = [k for k in ... if len(k) > 1]
Keywords(original_name) ==
    SelectSeq(SplitWords(original_name), LAMBDA k : Len(k) > 1)

RECURSIVE MatchCount(_, _)
\* The number of matching characters SequenceMatcher finds: the longest
\* common block, the earliest in a and then in b, and the same again to its
\* left and to its right.
MatchCount(a, b) ==
    LET blocks == {x \in (1..Len(a)) \X (1..Len(b)) \X (1..Len(a)) :
                      /\ x[1] + x[3] - 1 <= Len(a)
                      /\ x[2] + x[3] - 1 <= Len(b)
                      /\ SubSeq(a, x[1], x[1] + x[3] - 1)
                            = SubSeq(b, x[2], x[2] + x[3] - 1)}
    IN  IF blocks = {} THEN 0
        ELSE LET m == CHOOSE x \in blocks : \A y \in blocks :
                          \/ x[3] > y[3]
                          \/ x[3] = y[3] /\ x[1] < y[1]
                          \/ x[3] = y[3] /\ x[1] = y[1] /\ x[2] <= y[2]
             IN  m[3]
                 + MatchCount(SubSeq(a, 1, m[1] - 1), SubSeq(b, 1, m[2] - 1))
                 + MatchCount(SubSeq(a, m[1] + m[3], Len(a)),
                              SubSeq(b, m[2] + m[3], Len(b)))

\* The score of a candidate, as the fraction <<numerator, denominator>>:
\* SequenceMatcher(None, original_name.lower(), pdf_name.lower()).ratio(),
\* which is 2 * matches / (len(a) + len(b)), plus 0.2 for every keyword that
\* is in pdf_name. (With names this short no sum of the two comes within a
\* rounding error of another score or of 0.3, so the fractions compare as
\* the floating point numbers do.)
Score(original_name, pdf_name) ==
    LET a == Lower(original_name)
        b == Lower(pdf_name)
        total == Len(a) + Len(b)
        keywords == Keywords(original_name)
        keyword_match == Cardinality({k \in 1..Len(keywords) :
                                        InStr(keywords[k], pdf_name)})
    IN  IF total = 0 THEN <<10 + 2 * keyword_match, 10>>
        ELSE <<20 * MatchCount(a, b) + 2 * keyword_match * total, 10 * total>>

\* s > t
Above(s, t) == s[1] * t[2] > t[1] * s[2]

\* score > 0.3
AboveThreshold(score) == 10 * score[1] > 3 * score[2]

RECURSIVE BestOf(_, _, _)
\* The loop over folder_dir.glob("*.pdf"): best_match and best_score after
\* it.
BestOf(candidates, original_name, best) ==
    IF candidates = <<>> THEN best
    ELSE LET pdf_file == Head(candidates)
             score == Score(original_name, PathStem(pdf_file))
         IN  BestOf(Tail(candidates), original_name,
                    IF Above(score, best.score)
                    THEN [match |-> pdf_file, score |-> score]
                    ELSE best)

\* The fuzzy search for a hint among the listed files of a root: the files
\* with the extension that lie in the folder of the hint. (A folder is there
\* when a file is in it; an empty folder gives the same result as none.)
FuzzyIn(listing, hint) ==
    LET folder_path == FolderPath(hint)
        candidates == SelectSeq(listing, LAMBDA p :
                          FolderPath(p) = folder_path /\ p[Len(p)] = ".pdf")
    IN  BestOf(candidates, PathStem(hint), [match |-> NoPath, score |-> <<0, 1>>])

\* guess_filename_from_scan_name
GuessFilename(scan) ==
    LET base_name == SelectSeq(scan, LAMBDA c : c \notin {".pdf", " - QS printer.pdf"})
    IN  [k \in 1..Len(base_name) |->
            IF base_name[k] = "_" THEN "/" ELSE base_name[k]] \o <<".pdf">>

\* A document is put under PDF_DIR or under fallback_pdf_dir, before the
\* search.
VPut(root, p) ==
    /\ vpc = "idle"
    /\ Cardinality(pdf_dir) + Cardinality(fallback_pdf_dir) < MaxFiles
    /\ \/ /\ root = "master"
          /\ p \in FilesOf(MasterFiles) \ pdf_dir
          /\ pdf_dir' = pdf_dir \cup {p}
          /\ UNCHANGED fallback_pdf_dir
       \/ /\ root = "legacy"
          /\ p \in FilesOf(LegacyFiles) \ fallback_pdf_dir
          /\ fallback_pdf_dir' = fallback_pdf_dir \cup {p}
          /\ UNCHANGED pdf_dir
    /\ UNCHANGED <<vtable, vrev, vid, voriginal_filename, vscan_filename, vpc,
                   best_match, best_score, vret, vby, resolverRest>>

\* The document-serving side stamps a code for a file and saves the row of
\* its PRINT_ID: app.py keeps one row for an identifier, the last one saved.
VStamp(print_id, filename) ==
    /\ vpc = "idle"
    /\ vtable' = {row \in vtable : row.print_id # print_id}
                   \cup {[print_id |-> print_id, filename |-> filename]}
    /\ vtable' # vtable
    /\ UNCHANGED <<pdf_dir, fallback_pdf_dir, vrev, vid, voriginal_filename,
                   vscan_filename, vpc, best_match, best_score, vret, vby,
                   resolverRest>>

\* handle_pdf calls get_print_pdf_path(original_filename, scan_filename) for
\* the job of a PRINT_ID; rev is the order the file system lists files in
\* during the call.
VCall(print_id, hint, scan, rev) ==
    /\ vpc = "idle"
    /\ vid' = print_id
    /\ voriginal_filename' = hint
    /\ vscan_filename' = scan
    /\ vrev' = rev
    /\ best_match' = NoPath
    /\ best_score' = <<0, 1>>
    /\ vret' = NoPath
    /\ vby' = NotSet
    /\ vpc' = "exact"
    /\ UNCHANGED <<pdf_dir, fallback_pdf_dir, vtable, resolverRest>>

\* return of get_print_pdf_path
VReturn(ret, by) ==
    /\ vret' = ret
    /\ vby' = by
    /\ vpc' = "returned"

\* Method 1: the hint is stripped and joined to PDF_DIR. (The retry with
\* the resolved absolute path names the same file, and finds it no more
\* than the join does.)
VExact ==
    LET hint == StripText(voriginal_filename) IN
    /\ vpc = "exact"
    /\ voriginal_filename' = hint
    /\ IF hint \in pdf_dir
       THEN VReturn(<<"master", hint>>, "exact")
       ELSE /\ vpc' = "final"
            /\ UNCHANGED <<vret, vby>>
    /\ UNCHANGED <<pdf_dir, fallback_pdf_dir, vtable, vrev, vid, vscan_filename,
                   best_match, best_score, resolverRest>>

\* With a separator in the hint: the first file PDF_DIR.rglob lists whose
\* name ends with the last segment of the hint.
VFinal ==
    LET filename_part == PathName(voriginal_filename)
        found == SelectSeq(Listed(pdf_dir, MasterFiles, vrev),
                           LAMBDA p : EndsWith(PathName(p), filename_part))
    IN
    /\ vpc = "final"
    /\ IF ~HasSep(voriginal_filename, Separators)
       THEN /\ vpc' = "guess"
            /\ UNCHANGED <<vret, vby>>
       ELSE IF found # <<>>
       THEN VReturn(<<"master", Head(found)>>, "final")
       ELSE /\ vpc' = "fuzzy"
            /\ UNCHANGED <<vret, vby>>
    /\ UNCHANGED <<pdf_dir, fallback_pdf_dir, vtable, vrev, vid,
                   voriginal_filename, vscan_filename, best_match, best_score,
                   resolverRest>>

\* With a folder in the hint: the files of that folder under PDF_DIR are
\* scored, and the best one is returned when its score is above 0.3.
VFuzzy ==
    LET best == FuzzyIn(Listed(pdf_dir, MasterFiles, vrev), voriginal_filename) IN
    /\ vpc = "fuzzy"
    /\ IF FolderPath(voriginal_filename) = <<>>
       THEN /\ vpc' = "guess"
            /\ UNCHANGED <<best_match, best_score, vret, vby>>
       ELSE /\ best_match' = best.match
            /\ best_score' = best.score
            /\ IF best.match # NoPath /\ AboveThreshold(best.score)
               THEN VReturn(<<"master", best.match>>, "fuzzy")
               ELSE /\ vpc' = "guess"
                    /\ UNCHANGED <<vret, vby>>
    /\ UNCHANGED <<pdf_dir, fallback_pdf_dir, vtable, vrev, vid,
                   voriginal_filename, vscan_filename, resolverRest>>

\* Method 2: the name guessed from the name of the scan, joined to PDF_DIR,
\* and then the first file rglob lists whose path ends with the last two
\* parts of the guess.
VGuess ==
    LET guessed_filename == GuessFilename(vscan_filename)
        cut == LastSep(FolderPath(guessed_filename), {"/"})
        search_pattern == SubSeq(guessed_filename, cut + 1, Len(guessed_filename))
        found == SelectSeq(Listed(pdf_dir, MasterFiles, vrev),
                           LAMBDA p : EndsWith(p, search_pattern))
    IN
    /\ vpc = "guess"
    /\ IF guessed_filename \in pdf_dir
       THEN VReturn(<<"master", guessed_filename>>, "guess")
       ELSE IF HasSep(guessed_filename, {"/"}) /\ found # <<>>
       THEN VReturn(<<"master", Head(found)>>, "guess")
       ELSE /\ vpc' = "legacy"
            /\ UNCHANGED <<vret, vby>>
    /\ UNCHANGED <<pdf_dir, fallback_pdf_dir, vtable, vrev, vid,
                   voriginal_filename, vscan_filename, best_match, best_score,
                   resolverRest>>

\* Method 3: the hint joined to fallback_pdf_dir, when that folder is there.
VLegacy ==
    /\ vpc = "legacy"
    /\ IF fallback_pdf_dir = {}
       THEN /\ vpc' = "none"
            /\ UNCHANGED <<vret, vby>>
       ELSE IF voriginal_filename \in fallback_pdf_dir
       THEN VReturn(<<"legacy", voriginal_filename>>, "legacy")
       ELSE /\ vpc' = "legacy_fuzzy"
            /\ UNCHANGED <<vret, vby>>
    /\ UNCHANGED <<pdf_dir, fallback_pdf_dir, vtable, vrev, vid,
                   voriginal_filename, vscan_filename, best_match, best_score,
                   resolverRest>>

\* The fuzzy search again, in the folder of the hint under fallback_pdf_dir.
VLegacyFuzzy ==
    LET best == FuzzyIn(Listed(fallback_pdf_dir, LegacyFiles, vrev),
                        voriginal_filename) IN
    /\ vpc = "legacy_fuzzy"
    /\ IF FolderPath(voriginal_filename) = <<>>
       THEN /\ vpc' = "none"
            /\ UNCHANGED <<best_match, best_score, vret, vby>>
       ELSE /\ best_match' = best.match
            /\ best_score' = best.score
            /\ IF best.match # NoPath /\ AboveThreshold(best.score)
               THEN VReturn(<<"legacy", best.match>>, "legacy_fuzzy")
               ELSE /\ vpc' = "none"
                    /\ UNCHANGED <<vret, vby>>
    /\ UNCHANGED <<pdf_dir, fallback_pdf_dir, vtable, vrev, vid,
                   voriginal_filename, vscan_filename, resolverRest>>

\* Methods 4 and 5: PRINT_MATERIALS_ROOT is None in this program, the files
\* are listed for the log, and None is returned.
VNone ==
    /\ vpc = "none"
    /\ VReturn(NoPath, "none")
    /\ UNCHANGED <<pdf_dir, fallback_pdf_dir, vtable, vrev, vid,
                   voriginal_filename, vscan_filename, best_match, best_score,
                   resolverRest>>

ResolverNext ==
    \/ \E root \in {"master", "legacy"},
          p \in FilesOf(MasterFiles) \cup FilesOf(LegacyFiles) : VPut(root, p)
    \/ \E print_id \in PrintIds : VStamp(print_id, MasterFiles[1])
    \/ \E print_id \in PrintIds, hint \in Hints, scan \in ScanNames,
          rev \in BOOLEAN : VCall(print_id, hint, scan, rev)
    \/ VExact
    \/ VFinal
    \/ VFuzzy
    \/ VGuess
    \/ VLegacy
    \/ VLegacyFuzzy
    \/ VNone

\* No file and no row yet; everything else is at rest.
ResolverStart == IntakeAtRest /\ ComponentsAtRest

ResolverSpec == ResolverStart /\ [][ResolverNext]_vars

\* ------------------------------------------------------------ print_pdf
\* The test of scan_printer.py left out: any name is taken for an installed
\* printer. C35 rejects it.
InstalledNameAny(hint, printers) == Printer(hint)

\* print_pdf of scan_printer.py: the name as it is when it is among the
\* local or the network printers; else nothing, and print_pdf returns False.
InstalledName(hint, printers) ==
    IF InList(hint, printers) THEN Printer(hint) ELSE NoPrinter

\* print_pdf of scan_printer_yotsuya.py from EnumPrinters to the end of the
\* resolution: the name find_printer_by_name gives when it is installed;
\* without one the hint itself when it is installed, else the first
\* installed printer that contains the hint or is contained in it; else
\* nothing, and print_pdf returns False.
ResolvedName(hint, printers, config) ==
    LET actual == FindPrinterByName(hint, printers, config)
        Either == {k \in 1..Len(printers) :
                    InStr(hint, printers[k]) \/ InStr(printers[k], hint)}
        e == FirstIndex(Either)
    IN  IF actual.found
        THEN IF InList(actual.name, printers) THEN actual ELSE NoPrinter
        ELSE IF InList(hint, printers) THEN Printer(hint)
        ELSE IF e > 0 THEN Printer(printers[e])
        ELSE NoPrinter

\* The names of installed printers and the names print_pdf is called with
\* (the hint of a code or PRINTER_NAME): not empty.
PrinterNames == PrinterStrings \ {<<>>}

\* The printers.yaml files that matter to a hint: without it and with it
\* as a printer_name.
JConfigs(hint) == {<<>>, <<hint>>}

JGoto(p) == jpc' = p

\* return True / return False
JReturn(ok) ==
    /\ JGoto("returned")
    /\ jret' = IF ok THEN "true" ELSE "false"

\* A backend is started for a printer.
JInvoke(backend) == jcalls' = Append(jcalls, <<backend, jname>>)

\* if temp_pdf_path: threading.Thread(target=delete_temp_file,
\* daemon=True).start()
JStartDeleter ==
    jdeleter' = IF temp_pdf_path # "none" THEN "sleep" ELSE jdeleter

\* handle_pdf calls print_pdf(pdf_path, printer_name, 1).
JCall(prog, hint, printers, config, network, tool) ==
    /\ jpc = "idle"
    /\ jprog' = prog
    /\ jhint' = hint
    /\ all_printers' = printers
    /\ jconfig' = config
    /\ jnetwork' = network
    /\ jtool' = tool
    /\ JGoto("resolve")
    /\ UNCHANGED <<jname, temp_pdf_path, jcalls, jret, jdeleter, jobRest>>

\* The printer is looked for among the installed ones: scan_printer.py takes
\* the name as it is, scan_printer_yotsuya.py resolves it.
JResolve ==
    LET found == IF jprog = "campus"
                 THEN InstalledName(jhint, all_printers)
                 ELSE ResolvedName(jhint, all_printers, jconfig)
    IN
    /\ jpc = "resolve"
    /\ IF found.found
       THEN /\ jname' = found.name
            /\ JGoto(IF jprog = "campus" THEN "shell" ELSE "copy")
            /\ UNCHANGED jret
       ELSE /\ JReturn(FALSE)
            /\ UNCHANGED jname
    /\ UNCHANGED <<jprog, all_printers, jconfig, jhint, jnetwork, temp_pdf_path,
                   jtool, jcalls, jdeleter, jobRest>>

\* scan_printer.py: ShellExecute "print" with /d:"printer_name"; an
\* exception is caught and False returned.
JShell(raised) ==
    /\ jpc = "shell"
    /\ JInvoke("shell")
    /\ JReturn(~raised)
    /\ UNCHANGED <<jprog, all_printers, jconfig, jhint, jname, jnetwork,
                   temp_pdf_path, jtool, jdeleter, jobRest>>

\* A file on a network share is copied to the temporary folder; copy2 can
\* raise, with the copy begun or not, and the outer except-branch follows.
JCopy(outcome) ==
    /\ jpc = "copy"
    /\ IF ~jnetwork
       THEN /\ outcome = "copied"
            /\ JGoto("find")
            /\ UNCHANGED temp_pdf_path
       ELSE /\ temp_pdf_path' = IF outcome = "nothing" THEN "absent" ELSE "file"
            /\ JGoto(IF outcome = "copied" THEN "find" ELSE "outer")
    /\ UNCHANGED <<jprog, all_printers, jconfig, jhint, jname, jnetwork, jtool,
                   jcalls, jret, jdeleter, jobRest>>

\* if sumatra_path: ... elif acrobat_path: ... else: return False
JFind ==
    /\ jpc = "find"
    /\ IF jtool = "sumatra" THEN JGoto("sumatra") /\ UNCHANGED jret
       ELSE IF jtool = "acrobat" THEN JGoto("acrobat") /\ UNCHANGED jret
       ELSE JReturn(FALSE)
    /\ UNCHANGED <<jprog, all_printers, jconfig, jhint, jname, jnetwork,
                   temp_pdf_path, jtool, jcalls, jdeleter, jobRest>>

\* SumatraPDF -print-to printer_name, after one more test that the printer is
\* installed: on success the deleting thread is started and True returned,
\* on failure the default-printer swap follows.
JSumatra(ok) ==
    /\ jpc = "sumatra"
    /\ IF ~InList(jname, all_printers)
       THEN /\ JReturn(FALSE)
            /\ UNCHANGED <<jcalls, jdeleter>>
       ELSE /\ JInvoke("sumatra")
            /\ IF ok THEN JReturn(TRUE) /\ JStartDeleter
               ELSE JGoto("swap") /\ UNCHANGED <<jret, jdeleter>>
    /\ UNCHANGED <<jprog, all_printers, jconfig, jhint, jname, jnetwork,
                   temp_pdf_path, jtool, jobRest>>

\* Acrobat /t "file" "printer_name", likewise.
JAcrobat(ok) ==
    /\ jpc = "acrobat"
    /\ IF ~InList(jname, all_printers)
       THEN /\ JReturn(FALSE)
            /\ UNCHANGED <<jcalls, jdeleter>>
       ELSE /\ JInvoke("acrobat")
            /\ IF ok THEN JReturn(TRUE) /\ JStartDeleter
               ELSE JGoto("swap") /\ UNCHANGED <<jret, jdeleter>>
    /\ UNCHANGED <<jprog, all_printers, jconfig, jhint, jname, jnetwork,
                   temp_pdf_path, jtool, jobRest>>

\* The default printer is set to printer_name, the file is printed with
\* ShellExecute "print" and the default is set back: a result > 32 starts the
\* deleting thread and returns True; a result <= 32 and an exception return
\* False.
JSwap(outcome) ==
    /\ jpc = "swap"
    /\ JInvoke("swap")
    /\ JReturn(outcome = "ok")
    /\ IF outcome = "ok" THEN JStartDeleter ELSE UNCHANGED jdeleter
    /\ UNCHANGED <<jprog, all_printers, jconfig, jhint, jname, jnetwork,
                   temp_pdf_path, jtool, jobRest>>

\* except Exception: the temporary copy is unlinked if it exists, and False
\* is returned.
JOuter ==
    /\ jpc = "outer"
    /\ temp_pdf_path' = IF temp_pdf_path = "file" THEN "absent" ELSE temp_pdf_path
    /\ JReturn(FALSE)
    /\ UNCHANGED <<jprog, all_printers, jconfig, jhint, jname, jnetwork, jtool,
                   jcalls, jdeleter, jobRest>>

\* delete_temp_file: time.sleep(10) is over.
JWake ==
    /\ jdeleter = "sleep"
    /\ jdeleter' = "unlink"
    /\ UNCHANGED <<jprog, all_printers, jconfig, jhint, jname, jnetwork,
                   temp_pdf_path, jtool, jpc, jcalls, jret, jobRest>>

\* delete_temp_file: if temp_pdf_path.exists(): temp_pdf_path.unlink()
JUnlink ==
    /\ jdeleter = "unlink"
    /\ temp_pdf_path' = "absent"
    /\ jdeleter' = "done"
    /\ UNCHANGED <<jprog, all_printers, jconfig, jhint, jname, jnetwork, jtool,
                   jpc, jcalls, jret, jobRest>>

JobNext ==
    \/ /\ jpc = "idle"
       /\ \E prog \in {"campus", "yotsuya"}, hint \in PrinterNames,
             printers \in SeqsUpTo(PrinterNames, MaxPrinters),
             network \in BOOLEAN, tool \in {"sumatra", "acrobat", "none"} :
               \E config \in JConfigs(hint) :
                   JCall(prog, hint, printers, config, network, tool)
    \/ JResolve
    \/ \E raised \in BOOLEAN : JShell(raised)
    \/ \E outcome \in {"copied", "partial", "nothing"} : JCopy(outcome)
    \/ JFind
    \/ \E ok \in BOOLEAN : JSumatra(ok)
    \/ \E ok \in BOOLEAN : JAcrobat(ok)
    \/ \E outcome \in {"ok", "bad", "raise"} : JSwap(outcome)
    \/ JOuter
    \/ JWake
    \/ JUnlink

\* print_pdf has not been called; everything else is at rest.
JobStart == IntakeAtRest /\ ComponentsAtRest

JobSpec == JobStart /\ [][JobNext]_vars

\* The same, where every step that can be taken is taken in the end: the
\* function runs on and the deleting thread is scheduled.
JobLive == JobStart /\ [][JobNext]_vars /\ WF_vars(JobNext)

\* ------------------------------------------------- create_header_with_qr
\* The characters of the file names given to create_header_with_qr: a
\* letter, the two separators, a blank and a comma.
PathChars == {"x", "/", "\\", Blank, ","}

\* The file names: not empty, up to MaxPathLen characters.
StampedNames == SeqsUpTo(PathChars, MaxPathLen) \ {<<>>}

\* What get_printer_name_by_campus gives: nothing for no campus or a campus
\* without a printer, a name, a name with a blank in it.
CampusPrinters == {<<>>, <<"x">>, <<"x", Blank, "y">>}

\* filename.replace('\\', '/')
SlashesOnly(text) ==
    [k \in 1..Len(text) |-> IF text[k] = "\\" THEN "/" ELSE text[k]]

\* urllib.parse.quote(text, safe='/'): letters and / stay, a blank and a
\* comma are escaped.
Quote(text) ==
    [k \in 1..Len(text) |->
        IF text[k] = Blank THEN "%20"
        ELSE IF text[k] = "," THEN "%2C"
        ELSE text[k]]

\* qr_data of create_header_with_qr: PRINT_ID=<id>,FILE=<quoted name>, and
\* ,PRINTER=<name> when the campus has a printer.
QrData(print_id, original_filename, printer) ==
    <<"P", "=">> \o print_id \o <<",", "F", "=">> \o Quote(original_filename)
        \o (IF printer # <<>> THEN <<",", "R", "=">> \o printer ELSE <<>>)

\* create_header_with_qr makes the code of a file for a campus.
SBuild(filename, printer) ==
    /\ spc = "idle"
    /\ sfilename' = SlashesOnly(filename)
    /\ sprinter' = printer
    /\ sprint_id' = <<"i">>
    /\ sqr_data' = QrData(<<"i">>, SlashesOnly(filename), printer)
    /\ spc' = "printed"
    /\ UNCHANGED <<sparsed, stampRest>>

\* The sheet is scanned and extract_print_id_from_qr of
\* scan_printer_yotsuya.py reads the code.
SExtract ==
    /\ spc = "printed"
    /\ sparsed' = ExtractTags(sqr_data)
    /\ spc' = "read"
    /\ UNCHANGED <<sfilename, sprinter, sprint_id, sqr_data, stampRest>>

StampNext ==
    \/ \E filename \in StampedNames, printer \in CampusPrinters :
            SBuild(filename, printer)
    \/ SExtract

\* No code made yet; everything else is at rest.
StampStart == IntakeAtRest /\ ComponentsAtRest

StampSpec == StampStart /\ [][StampNext]_vars

\* ------------------------------------------------------- log_print_result
\* The header row, and the record row of a call.
HeaderRow == [kind |-> "header", call |-> 0]

RecordRow(n) == [kind |-> "record", call |-> n]

\* A write of rows at a place of the file: what was there is written over.
WrittenAt(rows, pos, new) ==
    SubSeq(rows, 1, pos) \o new \o SubSeq(rows, pos + Len(new) + 1, Len(rows))

\* A worker calls log_print_result.
WCall(t) ==
    /\ wpc[t] \in {"idle", "returned"}
    /\ wcalls < MaxLogs
    /\ wcalls' = wcalls + 1
    /\ wcall' = [wcall EXCEPT ![t] = wcalls + 1]
    /\ wpc' = [wpc EXCEPT ![t] = "exists"]
    /\ UNCHANGED <<log_exists, log_rows, file_exists, wbuf, wpos, loggerRest>>

\* file_exists = LOG_CSV.exists()
WExists(t) ==
    /\ wpc[t] = "exists"
    /\ file_exists' = [file_exists EXCEPT ![t] = log_exists]
    /\ wpc' = [wpc EXCEPT ![t] = "open"]
    /\ UNCHANGED <<log_exists, log_rows, wcall, wbuf, wpos, wcalls, loggerRest>>

\* open(LOG_CSV, "a", ...): a file that is not there is made.
WOpen(t) ==
    /\ wpc[t] = "open"
    /\ log_exists' = TRUE
    /\ wpc' = [wpc EXCEPT ![t] = "rows"]
    /\ UNCHANGED <<log_rows, wcall, file_exists, wbuf, wpos, wcalls, loggerRest>>

\* if not file_exists: writer.writerow(header); writer.writerow(record): the
\* rows go to the buffer of the file object.
WRows(t) ==
    /\ wpc[t] = "rows"
    /\ wbuf' = [wbuf EXCEPT ![t] =
                  (IF file_exists[t] THEN <<>> ELSE <<HeaderRow>>)
                      \o <<RecordRow(wcall[t])>>]
    /\ wpc' = [wpc EXCEPT ![t] = "seek"]
    /\ UNCHANGED <<log_exists, log_rows, wcall, file_exists, wpos, wcalls,
                   loggerRest>>

\* The end of the with-block closes the file: the buffer is written in append
\* mode, for which the runtime first moves to the end of the file ...
WSeek(t) ==
    /\ wpc[t] = "seek"
    /\ wpos' = [wpos EXCEPT ![t] = Len(log_rows)]
    /\ wpc' = [wpc EXCEPT ![t] = "flush"]
    /\ UNCHANGED <<log_exists, log_rows, wcall, file_exists, wbuf, wcalls,
                   loggerRest>>

\* ... and then writes: at the end as it is now where the system appends in
\* one step, at the end it moved to where it does not.
WFlush(t, atomic) ==
    /\ wpc[t] = "flush"
    /\ log_rows' = WrittenAt(log_rows,
                             IF atomic THEN Len(log_rows) ELSE wpos[t], wbuf[t])
    /\ wbuf' = [wbuf EXCEPT ![t] = <<>>]
    /\ wpc' = [wpc EXCEPT ![t] = "returned"]
    /\ UNCHANGED <<log_exists, wcall, file_exists, wpos, wcalls, loggerRest>>

LoggerNext ==
    \E t \in Threads :
        \/ WCall(t)
        \/ WExists(t)
        \/ WOpen(t)
        \/ WRows(t)
        \/ WSeek(t)
        \/ \E atomic \in BOOLEAN : WFlush(t, atomic)

\* The log file is absent and no worker is logging; everything else is at
\* rest.
LoggerStart == IntakeAtRest /\ ComponentsAtRest

LoggerSpec == LoggerStart /\ [][LoggerNext]_vars

\* ----------------------------------------------------------------- claims
\* No handler is between its guard check and its return.
Quiescent == \A t \in Threads : pc[t] \in {"idle", "done", "skipped"}

\* The pcs of a handler that is past the check of processing_files.
PastCheckPcs == AdmittedPcs \cup {"add"}

\* The rows of the outcome log that are about document d.
RecordsOf(d) == SelectSeq(log, LAMBDA r : r.doc = d)

SuccessLogged(d) == \E i \in 1..Len(log) : log[i].doc = d /\ log[i].result = "success"

\* C1: DuplicateGuard admits at most one concurrent handler per path: no two
\* handle_pdf invocations for the same path key are both past the check of
\* processing_files and still running.
C1_OneHandlerPerPath ==
    \A t, u \in Threads :
        (t # u /\ key[t] = key[u]) =>
            ~(pc[t] \in PastCheckPcs /\ pc[u] \in PastCheckPcs)

\* C2: for one scanned file, however many notifications arrive for it, the
\* print backend is invoked at most once (once more for each time the
\* operator resubmits).
C2_PrintedAtMostOnce == \A d \in Docs : prints[d] <= 1 + nresub

\* C3: idempotence: concurrent handling attempts on the same stabilized path
\* yield one terminal log entry and one folder placement of the file, never
\* more; stated for the runs in which no operation fails and the operator
\* resubmits nothing.
C3_OneEntryOnePlacement ==
    (~faulty /\ nresub = 0) =>
        \A d \in Docs :
            /\ Len(RecordsOf(d)) <= 1
            /\ placed[d] <= 1

\* C4: once a file is in PROCESSING no handler returns while it is still
\* there: a file in the processing folder always has a handler that is still
\* at work on its path.
C4_NotLeftInProcessing ==
    \A d \in Docs :
        loc[d] = "processing" =>
            \E t \in Threads :
                /\ Plain(key[t]) = fname[d]
                /\ pc[t] \in {"qr", "mv_done", "mv_err", "exc_proc"}

\* C5: exactly one OutcomeRecord is appended for each terminal transition of
\* a file (each move into DONE or ERROR, the top-level exception handler's
\* included), and none without one.
C5_OneRecordPerTransition == \A d \in Docs : Len(RecordsOf(d)) = placed[d]

\* C6: a file whose handling has begun is in exactly one of the folders
\* incoming, processing, done, error, never in none of them; stated for the
\* runs in which no operation fails.
C6_InExactlyOneFolder ==
    ~faulty =>
        \A d \in Docs :
            loc[d] # "unborn" => loc[d] \in {"in", "processing", "done", "error"}

\* The handler thread that makes the move of a step, if one does.
MoverAt(d, pcs) ==
    \E t \in Threads :
        /\ pc[t] \in pcs
        /\ pc'[t] # pc[t]
        /\ key[t] = fname[d].base

C8_NoAutomaticRetry ==
    [][\A t \in Threads :
         (pc[t] = "idle" /\ pc'[t] = "start") =>
            LET d == FileAt(WatchedFolder, Plain(key'[t]))
            IN  IF d = NoDoc THEN TRUE ELSE ~finished[d]]_vars

\* C9: the DuplicateGuard entry is removed on every exit path: a path is in
\* processing_files only while a handler admitted for it has not returned.
C9_GuardReleased ==
    \A n \in Names :
        n \in processing_files =>
            \E t \in Threads : key[t] = n /\ pc[t] \in AdmittedPcs

\* C9's case: a handler has returned from a path, the operator has
\* resubmitted the file there, and a later handler is admitted for it.
C9_Witness ==
    /\ nresub >= 1
    /\ \E t, u \in Threads :
          LET d == FileAt(WatchedFolder, Plain(key[u])) IN
          /\ pc[t] = "done" /\ key[t] = key[u]
          /\ pc[u] \in AdmittedPcs /\ key[u] \in processing_files
          /\ (IF d = NoDoc THEN FALSE ELSE placed[d] >= 1)

\* C10: end-to-end success: where nothing fails (the printer is installed, the
\* master file is there, the backend takes the job), a stable file whose
\* payload is tag-form with a PRINTER hint is, once its handlers have
\* returned, in the done folder, with a success record in the log.
C10_EndToEndSuccess ==
    (~faulty /\ Quiescent) =>
        \A d \in Docs :
            (finished[d] /\ qr[d] = "tagp") => (loc[d] = "done" /\ SuccessLogged(d))

\* C11: DecodeFailure: where nothing fails and the site is configured, a
\* stabilized file from which no QR payload is decoded is, once its handlers
\* have returned, in the error folder with a log record result=error,
\* error message "QR not found".
C11_DecodeFailure ==
    (~faulty /\ siteConfigured /\ Quiescent) =>
        \A d \in Docs :
            (finished[d] /\ qr[d] = "none") =>
                /\ loc[d] = "error"
                /\ \E i \in 1..Len(log) :
                      /\ log[i].doc = d
                      /\ log[i].result = "error"
                      /\ log[i].error_message = "QR not found"

\* C12: MalformedPayload: when a decoded payload parses under neither
\* grammar, the handler moves the file to the ERROR folder and logs the raw
\* payload.
C12_MalformedPayload ==
    \A line \in rlog :
        line.tag = "BADQR" =>
            /\ rloc[line.scan] = "error"
            /\ line.text = RawText(rpay[line.scan])

\* C19: Relocate is idempotent on a missing source: a move that fails because
\* the source file is not there is not reported as a failure.
C19_MissingSourceBenign ==
    \A line \in rlog : ~(line.tag = "FAILED" /\ line.text = <<"move">>)

\* The name is <base>.pdf, or <base>.pdf is taken and the name is <base>_n.pdf
\* with the lowest free n from 2 up.
LowestFree(name) ==
    \/ name.n = 1
    \/ /\ name.n >= 2
       /\ [base |-> name.base, n |-> 1] \in OutNames
       /\ \A m \in 2..(name.n - 1) : [base |-> name.base, n |-> m] \in OutNames

\* C20: collision-safe naming: for relocations with the same student, teacher,
\* text name and date, build_destination returns a path that does not exist
\* when it returns (and still does not when the move is made), the names being
\* <base>.pdf, then <base>_2.pdf, then the lowest free _n; no relocation
\* overwrites an existing file.
C20_CollisionSafe ==
    /\ [](\A f \in RScans : rloc[f] # "lost")
    /\ [](rpc = "move" => rdst \notin OutNames)
    /\ [][(rpc = "decode" /\ rpc' = "move") => LowestFree(rdst')]_vars

\* C20's case: two scans of one student and teacher are filed as <base>.pdf
\* and <base>_2.pdf, and build_destination has returned <base>_3.pdf for a
\* third.
C20_Witness ==
    /\ rpc = "move"
    /\ rdst.n = 3
    /\ \E f, g \in RScans :
          /\ rloc[f] = "out" /\ rname[f] = [base |-> rdst.base, n |-> 1]
          /\ rloc[g] = "out" /\ rname[g] = [base |-> rdst.base, n |-> 2]

\* The newest k samples are one non-zero size.
RunOf(k) ==
    /\ Len(ghist) >= k
    /\ ghist[Len(ghist)] > 0
    /\ \A j \in (Len(ghist) - k + 1)..Len(ghist) : ghist[j] = ghist[Len(ghist)]

\* C13: the stability gate never declares a file stable while it is still
\* growing: wait_until_file_stable returns true only if the most recent
\* STABLE_CHECK_COUNT (6) size samples are all equal and non-zero.
C13_StableOnlyWhenQuiet == gret = "true" => RunOf(STABLE_CHECK_COUNT)

\* C13's case: the gate has answered True for a file that was still growing
\* (or empty) when the first samples were taken.
C13_Witness == gret = "true" /\ gi > STABLE_CHECK_COUNT

\* C14 as stated: wait_until_file_stable returns true at the first sample that
\* completes a run of 6 identical non-zero samples.
C14_TrueAtSixSamples == RunOf(STABLE_CHECK_COUNT) => gret = "true"

\* C14, amended: wait_until_file_stable returns true at the first sample that
\* completes a run of 7 identical non-zero samples (the size seen, then
\* STABLE_CHECK_COUNT = 6 repeats of it) among its STABLE_CHECK_COUNT * 5 = 30
\* samples, and at no other sample.
C14_TrueAtSixRepeats == RunOf(STABLE_CHECK_COUNT + 1) <=> gret = "true"

\* C14's case: the gate has answered True on its very last sample.
C14_Witness == gret = "true" /\ gi = Attempts - 1

\* C15: printer precedence: if the hint equals an installed name, the resolver
\* returns exactly that name, whatever else is installed and in whatever
\* order.
C15_ExactMatchWins ==
    (ppc = "returned" /\ InList(qr_printer_name, available_printers)) =>
        presult = Printer(qr_printer_name)

\* C15's case: the hint is installed, and a printer enumerated before it
\* matches the hint as a substring without being equal to it.
C15_Witness ==
    /\ ppc = "returned"
    /\ \E k \in 1..Len(available_printers) :
        /\ available_printers[k] = qr_printer_name
        /\ \E j \in 1..(k - 1) :
            /\ available_printers[j] # qr_printer_name
            /\ \/ InStr(qr_printer_name, available_printers[j])
               \/ InStr(available_printers[j], qr_printer_name)

\* C16: a tag-form PRINTER hint is honoured whatever the site configuration
\* contains: where nothing fails, a stabilized file whose payload carries the
\* hint is, once its handlers have returned, printed, and every record the log
\* holds of it (there is one) names the hinted printer.
C16_HintedPrinterUsed ==
    (~faulty /\ Quiescent) =>
        \A d \in Docs :
            (finished[d] /\ qr[d] = "tagp") =>
                /\ prints[d] >= 1
                /\ \E i \in 1..Len(log) : log[i].doc = d
                /\ \A i \in 1..Len(log) :
                    log[i].doc = d => log[i].printer = HintPrinter

\* No call of print_pdf is under way.
NoCallUnderWay == \A t \in Threads : bpc[t] \in {"idle", "returned"}

\* C17: the default-printer swap restores the original default printer: when
\* every call of print_pdf has returned, whatever the interleaving of the
\* workers, the system default printer is the one set before the first swap.
C17_DefaultRestored == NoCallUnderWay => sysdefault = original

\* The call has started the backend, or the backend is not installed.
Passed(t, backend) ==
    \/ \E k \in 1..Len(attempts[t]) : attempts[t][k] = backend
    \/ backend = "sumatra" /\ ~sumatra_path
    \/ backend = "acrobat" /\ ~acrobat_path

\* C18: print_pdf returns failure only after the dedicated PDF utility, the
\* general viewer and the default-printer swap have each been attempted (or,
\* for the two programs, found absent), in that order.
C18_AllBackendsTried ==
    \A t \in Threads :
        /\ bret[t] = "false" =>
            (Passed(t, "sumatra") /\ Passed(t, "acrobat") /\ Passed(t, "swap"))
        /\ \A j, k \in 1..Len(attempts[t]) :
            (j < k) => <<attempts[t][j], attempts[t][k]>> \in
                {<<"sumatra", "acrobat">>, <<"sumatra", "swap">>, <<"acrobat", "swap">>}

\* C21: a move of a scanned file into the processing, done or error folder
\* never overwrites a file already there: where no operation fails, no step
\* makes a file that is in one of these folders cease to exist.
C21_MoveNeverOverwrites ==
    [][~faulty =>
        \A d \in Docs :
            loc[d] \in {"processing", "done", "error"} => loc'[d] # "lost"]_vars

\* C22: the folder watcher never blocks on the per-file handler: whenever an
\* event is waiting, the watcher can deliver it, whether or not an earlier
\* file is still being handled.
C22_WatcherNeverBlocks == rqueue # <<>> => ENABLED RBegin

\* No call of save_print_id_mapping is under way.
NoSaveUnderWay == \A t \in Threads : mpc[t] \in {"idle", "returned"}

\* The rows of the table that carry the identifier.
RowsFor(k) == {j \in 1..Len(mrows) : mrows[j].print_id = k}

\* C23: identifier mapping table, last write wins: after calls of
\* save_print_id_mapping made one after the other (file names without
\* surrounding blanks), the table holds exactly one row for each identifier
\* saved, and a lookup gives the file name of the latest call for it.
C23_LastWriteWins ==
    (NoSaveUnderWay /\ ~moverlap) =>
        \A k \in PrintIds :
            (mlast[k] # NotSet /\ Strip(mlast[k]) = mlast[k]) =>
                /\ Cardinality(RowsFor(k)) = 1
                /\ DictGet(LoadPrintIdMapping(mrows), k) = mlast[k]

\* C24: writes to the mapping table are serialized: whatever the interleaving
\* of the calls of save_print_id_mapping, once they have returned the table
\* has a row for every identifier saved.
C24_NoUpdateLost ==
    NoSaveUnderWay => \A k \in PrintIds : mlast[k] # NotSet => RowsFor(k) # {}

\* The payload is PRINT_ID=<id>[,FILE=<path>][,PRINTER=<name>].
GrammarA(fields) ==
    /\ Len(fields) >= 1
    /\ fields[1] \in IdPieces
    /\ \/ Len(fields) = 1
       \/ Len(fields) = 2 /\ fields[2] \in FilePieces \cup PrinterPieces
       \/ Len(fields) = 3 /\ fields[2] \in FilePieces /\ fields[3] \in PrinterPieces

\* What follows KEY= in a piece.
ValueOf(piece) == SubSeq(piece, 3, Len(piece))

\* The value of the payload's piece of the kind, Nil when it has none.
HintOf(fields, kind) ==
    IF \E k \in 1..Len(fields) : fields[k] \in kind
    THEN ValueOf(fields[CHOOSE k \in 1..Len(fields) : fields[k] \in kind])
    ELSE Nil

\* C25: Grammar A parsing: for a payload PRINT_ID=<id>[,FILE=<path>]
\* [,PRINTER=<name>] the extraction gives <id>, the percent-decoded path (none
\* without FILE) and the printer name (none without PRINTER); a payload
\* without PRINT_ID gives no result.
C25_GrammarAParsed ==
    qtags.done =>
        /\ GrammarA(qfields) =>
              qtags.value = <<HintOf(qfields, IdPieces),
                              IF HintOf(qfields, FilePieces) = Nil THEN Nil
                              ELSE Unquote(HintOf(qfields, FilePieces)),
                              HintOf(qfields, PrinterPieces)>>
        /\ (\A k \in 1..Len(qfields) : qfields[k] \notin IdPieces) =>
              qtags.value = <<Nil, Nil, Nil>>

\* The pieces of the payload, trimmed.
Trimmed(fields) == [k \in 1..Len(fields) |-> StripText(fields[k])]

\* C26: Grammar B parsing: parse_qr_payload accepts a payload iff it has at
\* least two comma-separated fields of which the first two are non-empty after
\* trimming; it then gives student = field 1, teacher = field 2 and text name
\* = field 3 when there is one (none for two fields); otherwise no result.
C26_GrammarBParsed ==
    qtuple.done =>
        IF Len(qfields) >= 2 /\ Trimmed(qfields)[1] # <<>> /\ Trimmed(qfields)[2] # <<>>
        THEN qtuple.value = <<Trimmed(qfields)[2], Trimmed(qfields)[1],
                              IF Len(qfields) >= 3 THEN Trimmed(qfields)[3] ELSE Nil>>
        ELSE qtuple.value = Nil

\* C26's case: a payload of three fields with blanks around a name has been
\* parsed and accepted.
C26_Witness ==
    /\ qtuple.done
    /\ qtuple.value # Nil
    /\ Len(qfields) = 3
    /\ qfields[1] = <<Blank, "y", Blank>>

\* C27: the two grammars are mutually exclusive: no payload is accepted both
\* as a tag-form payload (extract_print_id_from_qr gives an identifier) and as
\* an identity tuple (parse_qr_payload gives a result).
C27_GrammarsExclusive ==
    (qtags.done /\ qtuple.done) => ~(qtags.value[1] # Nil /\ qtuple.value # Nil)

\* The pcs of a handler that has gone on after the stability gate.
PastGatePcs == {"toproc", "qr", "mv_done", "mv_done2", "mv_err"}

\* C28: when the stability gate fails, the handler abandons the file: it goes
\* on to nothing but its return, and neither the step that takes the gate's
\* false nor the return moves a file, writes a record or prints; the return
\* releases the guard entry.
C28_GateFailureAbandons ==
    /\ [](\A t \in Threads : pc[t] \in PastGatePcs => gateok[t])
    /\ [][\A t \in Threads :
            (\/ pc[t] = "gate" /\ pc'[t] = "fin" /\ ~gateok'[t]
             \/ pc[t] = "fin" /\ ~gateok[t] /\ pc'[t] = "done") =>
                /\ loc' = loc /\ fname' = fname
                /\ log' = log
                /\ prints' = prints
                /\ pc'[t] = "done" => key[t] \notin processing_files']_vars

\* C28's case: nothing fails, a file is still being written when the gate
\* gives up, and its handler is about to return with the guard entry held.
C28_Witness ==
    /\ ~faulty
    /\ \E t \in Threads :
        LET d == FileAt(WatchedFolder, Plain(key[t])) IN
        /\ pc[t] = "fin" /\ ~gateok[t]
        /\ key[t] \in processing_files
        /\ (IF d = NoDoc THEN FALSE ELSE written[d] = "partial")

\* C29: an I/O error raised while the stability gate samples a file is
\* absorbed by the gate: no handler goes from the gate to the top-level
\* exception path.
C29_GateAbsorbsIOError ==
    [][\A t \in Threads : pc[t] = "gate" => pc'[t] \notin {"exc_in", "exc_proc"}]_vars

\* The stage gave no payload: the detector raised or gave nothing but blanks.
StageFailed(data) == data = Raised \/ StripText(data) = <<>>

\* The stages the image allows, in ladder order.
StagesAllowed ==
    IF roi_size THEN Ladder ELSE SubSeq(Ladder, 4, 5)

\* C30: the fallback ladder: decode_qr_from_image tries the stages in the
\* order roi_raw, roi_big, roi_big_otsu, full_bgr, full_otsu (the three on the
\* region only when the region has pixels); every stage before the last one
\* tried has failed; it returns the payload of the first stage that decodes a
\* non-empty text, and none iff every stage was tried and failed.
C30_FallbackLadder ==
    /\ Len(ltried) <= Len(StagesAllowed)
    /\ \A k \in 1..Len(ltried) : ltried[k].stage = StagesAllowed[k]
    /\ \A k \in 1..(Len(ltried) - 1) : StageFailed(ltried[k].data)
    /\ lpc = "returned" =>
        /\ ltried # <<>>
        /\ IF StageFailed(ltried[Len(ltried)].data)
           THEN lret = Nil /\ Len(ltried) = Len(StagesAllowed)
           ELSE lret = StripText(ltried[Len(ltried)].data)
    /\ (lpc = "try" /\ ltried # <<>>) => StageFailed(ltried[Len(ltried)].data)

\* C30's case: the three stages on the region have failed and the whole page
\* has given the payload (with a blank before it), which is returned.
C30_Witness ==
    /\ lpc = "returned"
    /\ Len(ltried) = 4
    /\ ltried[4].data = <<Blank, "y">>
    /\ lret = <<"y">>

\* The recognized keys of the tag form: PRINT_ID, FILE and PRINTER.
RecognizedKeys == {"P", "F", "R"}

\* The places of the payload where FILE= stands.
FileKeys(text) == {k \in 1..(Len(text) - 1) : text[k] = "F" /\ text[k + 1] = "="}

\* The value after the first FILE=, read up to the next recognized key or the
\* end of the payload.
FileSpan(text) ==
    LET k == CHOOSE c \in FileKeys(text) : \A d \in FileKeys(text) : c <= d
        ends == {j \in (k + 2)..(Len(text) - 2) :
                    /\ text[j] = ","
                    /\ text[j + 1] \in RecognizedKeys
                    /\ text[j + 2] = "="}
    IN  IF ends = {} THEN SubSeq(text, k + 2, Len(text))
        ELSE SubSeq(text, k + 2, (CHOOSE c \in ends : \A d \in ends : c <= d) - 1)

\* C34: in a tag-form payload the FILE value spans from FILE= up to the next
\* recognized key (PRINT_ID, FILE, PRINTER) or the end of the payload: a
\* comma that no recognized key follows belongs to the value.
C34_FileSpansToNextKey ==
    (qtags.done /\ qtags.value[1] # Nil /\ FileKeys(qr_data) # {}) =>
        qtags.value[2] = Unquote(StripText(FileSpan(qr_data)))

\* C31: the resolution is first-hit-wins in the stated order: the hint joined
\* to the master root is returned whenever that file exists, and when it does
\* not, the hint joined to the secondary root is returned, before any match
\* of the last segment and any fuzzy match under the master root.
C31_ExactBeforeSearch ==
    vpc = "returned" =>
        /\ voriginal_filename \in pdf_dir =>
              vret = <<"master", voriginal_filename>>
        /\ (voriginal_filename \notin pdf_dir
              /\ voriginal_filename \in fallback_pdf_dir) =>
              vret = <<"legacy", voriginal_filename>>

\* The methods that resolve a hint by the exact, last-segment or fuzzy step.
HintMethods == {"exact", "legacy", "final", "fuzzy", "legacy_fuzzy"}

\* The rows of the table for the PRINT_ID of the job.
RowsOfJob == {row \in vtable : row.print_id = vid}

\* C32: when the hint resolves by none of the exact, last-segment and fuzzy
\* steps and the mapping table on disk has a row for the PRINT_ID of the job,
\* the search returns the file of that row instead of nothing.
C32_TableLookup ==
    (vpc = "returned" /\ vby \notin HintMethods \cup {"guess"}
        /\ RowsOfJob # {}) =>
        \E row \in RowsOfJob : vret = <<"master", row.filename>>

\* C33: when the exact lookup of a hint fails (and no file matches its last
\* segment), the files of the hinted folder are scored, and the one with the
\* highest score, the first listed among equals, is returned iff its score
\* is above 0.3; otherwise the fuzzy step returns nothing.
C33_FuzzyBest ==
    LET listing == Listed(pdf_dir, MasterFiles, vrev)
        best == FuzzyIn(listing, voriginal_filename)
        named == \E k \in 1..Len(listing) :
                    EndsWith(PathName(listing[k]), PathName(voriginal_filename))
    IN  (/\ vpc = "returned"
         /\ voriginal_filename \notin pdf_dir
         /\ voriginal_filename \notin fallback_pdf_dir
         /\ ~(HasSep(voriginal_filename, Separators) /\ named)) =>
            IF best.match # NoPath /\ AboveThreshold(best.score)
            THEN vret = <<"master", best.match>>
            ELSE vby # "fuzzy"

\* The hint matches an installed printer by the exact, the configured-alias
\* or the substring step: it is one, contains one or is contained in one.
MatchesInstalled(hint, printers) ==
    \E k \in 1..Len(printers) :
        hint = printers[k] \/ InStr(hint, printers[k]) \/ InStr(printers[k], hint)

\* C35: print_pdf starts a print backend only for a printer that is among the
\* installed ones, and when the hint matches no installed printer it returns
\* failure without starting any backend.
C35_OnlyInstalledPrinters ==
    /\ \A k \in 1..Len(jcalls) : InList(jcalls[k][2], all_printers)
    /\ (jpc = "returned" /\ ~MatchesInstalled(jhint, all_printers)) =>
          (jret = "false" /\ jcalls = <<>>)

\* A hint that is no installed printer was resolved to one that contains it,
\* and the backend was started for that printer.
C35_Witness ==
    /\ jpc = "returned"
    /\ jprog = "yotsuya"
    /\ jhint = <<"a">>
    /\ all_printers = <<<<"b">>, <<"b", "a">>>>
    /\ jcalls = <<<<"sumatra", <<"b", "a">>>>>>
    /\ jret = "true"

\* C36: every temporary copy print_pdf makes is deleted in the end, whether
\* the print succeeded, every backend failed or an exception was raised, and
\* after a successful dispatch it is not deleted before the delay of the
\* deleting thread is over.
C36_TempCopyDeleted ==
    /\ (temp_pdf_path = "file") ~> (temp_pdf_path # "file")
    /\ [][(temp_pdf_path = "file" /\ temp_pdf_path' # "file" /\ jret = "true")
            => jdeleter = "unlink"]_vars

\* C37: round trip across the join point: the payload app.py builds for a
\* file name and a configured printer name is read by
\* extract_print_id_from_qr as the same identifier, the same file name and
\* the same printer name.
C37_RoundTrip ==
    spc = "read" =>
        sparsed = <<sprint_id, sfilename,
                    IF sprinter = <<>> THEN Nil ELSE sprinter>>

\* No call of log_print_result is under way.
NoLogUnderWay == \A t \in Threads : wpc[t] \in {"idle", "returned"}

\* The places of the log where a row is.
PlacesOf(row) == {k \in 1..Len(log_rows) : log_rows[k] = row}

\* C38: after any interleaving of log_print_result calls, starting from an
\* absent log file, the log has exactly one header row, which is its first
\* row, and one whole record row for every call.
C38_LogWellFormed ==
    (NoLogUnderWay /\ wcalls > 0) =>
        /\ PlacesOf(HeaderRow) = {1}
        /\ \A n \in 1..wcalls : Cardinality(PlacesOf(RecordRow(n))) = 1

====
